---- MODULE Spec2Model ----
(***************************************************************************)
(* A model of the statement-metrics engine of src/services/pdf_parser.py:  *)
(* extract_financial_metrics and its helpers _find_by_regex and            *)
(* _parse_val; of its caller, the route POST /evaluate of                  *)
(* src/routes/evaluation.py; and of the DataProcessor of                   *)
(* src/services/data_processor.py with the route GET /stats.               *)
(*                                                                         *)
(* Strings are sequences of one-character strings.  Numbers are exact      *)
(* decimals, kept as a sign and digit sequences (integer part and         *)
(* fraction part), so that twelve-digit tokens and sums of them are        *)
(* represented without overflow.  Python's binary floats agree with the    *)
(* exact decimals after round(x, 2) except when x lies exactly half way    *)
(* between two hundredths; there both neighbours are allowed.              *)
(***************************************************************************)
EXTENDS Integers, Sequences, FiniteSets, TLC

VARIABLES
    doc,              \* per invocation: the document behind file_path
    pc,               \* per invocation: where the call stands
    pdf,              \* per invocation: the handle of pdfplumber.open
    page_no,          \* per invocation: the next page of "for page in pdf.pages"
    all_text,         \* per invocation (line 11)
    all_rows,         \* per invocation (line 12)
    summary,          \* per invocation: summary_credit, summary_debit, summary_balance
    idx,              \* per invocation: credit_idx, debit_idx, balance_idx, amount_idx, type_idx
    row_no,           \* per invocation: the next row of the running "for row in ..." loop
    acc,              \* per frame: total_credit, total_debit, balances
    result,           \* per invocation: the triple returned, or NoResult
    raised,           \* per invocation: an exception reached the except clause
    stages,           \* per invocation: the stages that have run (history)
    added,            \* per invocation: the cells added to an accumulator (history)
    val_str,          \* _parse_val under test: the argument
    parsed,           \* _parse_val under test: the value returned, or NotCalled
    request,          \* per request of POST /evaluate: its form, locals and response
    temp_uploads,     \* the files of the folder UPLOAD_FOLDER, by name
    df_original,      \* data_processor.df_original
    df_processed,     \* data_processor.df_processed
    answer,           \* what the last call on data_processor or GET /stats gave
    client_row,       \* _calculate_client_score under test: the row
    client_score      \* _calculate_client_score under test: the outcome

\* the state of the routes and of the data processor
webvars == <<request, temp_uploads, df_original, df_processed, answer, client_row,
             client_score>>

\* the state of the calls of extract_financial_metrics and _parse_val
pdfvars == <<doc, pc, pdf, page_no, all_text, all_rows, summary, idx, row_no, acc,
             result, raised, stages, added, val_str, parsed>>

vars == <<pdfvars, webvars>>

(***************************************************************************)
(* Characters and strings                                                  *)
(***************************************************************************)

DigitChars == <<"0", "1", "2", "3", "4", "5", "6", "7", "8", "9">>
UpperChars == <<"A", "B", "C", "D", "E", "F", "G", "H", "I", "J", "K", "L", "M",
                "N", "O", "P", "Q", "R", "S", "T", "U", "V", "W", "X", "Y", "Z">>
LowerChars == <<"a", "b", "c", "d", "e", "f", "g", "h", "i", "j", "k", "l", "m",
                "n", "o", "p", "q", "r", "s", "t", "u", "v", "w", "x", "y", "z">>

Range(s) == {s[i] : i \in DOMAIN s}

DigitSet == Range(DigitChars)

UpperSet == Range(UpperChars)

LetterSet == Range(UpperChars) \cup Range(LowerChars)

SpaceSet == {" ", "\n", "\t"}

\* \d of the re module
IsDigit(c) == c \in DigitSet

DigitOf == [c \in DigitSet |-> (CHOOSE i \in DOMAIN DigitChars : DigitChars[i] = c) - 1]

DigitVal(c) == DigitOf[c]

\* a letter, as [A-Z] matches it under re.IGNORECASE
IsLetter(c) == c \in LetterSet

\* \s of the re module, and what str.strip() removes
IsSpace(c) == c \in SpaceSet

LowerOf == [c \in UpperSet |-> LowerChars[CHOOSE i \in DOMAIN UpperChars : UpperChars[i] = c]]

LowerChar(c) == IF c \in UpperSet THEN LowerOf[c] ELSE c

\* str.lower()
Lower(s) == [i \in DOMAIN s |-> LowerChar(s[i])]

\* k in s, for strings
Contains(k, s) ==
    \E i \in 1..(Len(s) - Len(k) + 1) : SubSeq(s, i, i + Len(k) - 1) = k

\* any(k in s for k in ks)
ContainsAny(ks, s) == \E k \in ks : Contains(k, s)

\* s.count(c)
Count(c, s) == Cardinality({i \in DOMAIN s : s[i] = c})

(***************************************************************************)
(* Exact decimals: [neg |-> sign, ip |-> digits of the integer part,       *)
(* without leading zeros, fp |-> digits of the fraction, without trailing  *)
(* zeros].  Zero carries no sign.                                          *)
(***************************************************************************)

Zero == [neg |-> FALSE, ip |-> <<>>, fp |-> <<>>]

RECURSIVE StripLead(_)
StripLead(d) == IF d # <<>> /\ d[1] = 0 THEN StripLead(Tail(d)) ELSE d

RECURSIVE StripTrail(_)
StripTrail(d) ==
    IF d # <<>> /\ d[Len(d)] = 0 THEN StripTrail(SubSeq(d, 1, Len(d) - 1)) ELSE d

Norm(neg, ip, fp) ==
    LET i == StripLead(ip)
        f == StripTrail(fp)
    IN  [neg |-> neg /\ (i # <<>> \/ f # <<>>), ip |-> i, fp |-> f]

Zeros(n) == IF n <= 0 THEN <<>> ELSE [i \in 1..n |-> 0]

PadLeft(d, n) == Zeros(n - Len(d)) \o d

PadRight(d, n) == d \o Zeros(n - Len(d))

Max(a, b) == IF a >= b THEN a ELSE b

\* x + y for digit sequences of one length n; the sum has n + 1 digits
AddDigits(x, y) ==
    LET n == Len(x)
        carry[i \in 0..n] ==
            IF i = 0 THEN 0 ELSE (x[n + 1 - i] + y[n + 1 - i] + carry[i - 1]) \div 10
    IN  [k \in 1..(n + 1) |->
            IF k = 1 THEN carry[n]
            ELSE (x[k - 1] + y[k - 1] + carry[n + 1 - k]) % 10]

\* x - y for digit sequences of one length n with x >= y
SubDigits(x, y) ==
    LET n == Len(x)
        borrow[i \in 0..n] ==
            IF i = 0 THEN 0
            ELSE IF x[n + 1 - i] - y[n + 1 - i] - borrow[i - 1] < 0 THEN 1 ELSE 0
    IN  [k \in 1..n |-> (x[k] - y[k] - borrow[n - k] + 10) % 10]

\* x < y for digit sequences of one length
RECURSIVE LessDigits(_, _)
LessDigits(x, y) ==
    /\ x # <<>>
    /\ \/ x[1] < y[1]
       \/ x[1] = y[1] /\ LessDigits(Tail(x), Tail(y))

\* a + b
Add(a, b) ==
    LET I == Max(Len(a.ip), Len(b.ip))
        F == Max(Len(a.fp), Len(b.fp))
        x == PadLeft(a.ip, I) \o PadRight(a.fp, F)
        y == PadLeft(b.ip, I) \o PadRight(b.fp, F)
        cut(neg, s) == Norm(neg, SubSeq(s, 1, Len(s) - F),
                                 SubSeq(s, Len(s) - F + 1, Len(s)))
    IN  IF a.neg = b.neg THEN cut(a.neg, AddDigits(x, y))
        ELSE IF LessDigits(x, y) THEN cut(b.neg, SubDigits(y, x))
        ELSE cut(a.neg, SubDigits(x, y))

\* sum(vs)
RECURSIVE Sum(_)
Sum(vs) == IF vs = <<>> THEN Zero ELSE Add(Head(vs), Sum(Tail(vs)))

\* v > 0
Positive(v) == v # Zero /\ ~ v.neg

\* the truth value of a float: v != 0
Truthy(v) == v # Zero

Cent(neg) == [neg |-> neg, ip |-> <<>>, fp |-> <<0, 1>>]

\* round(x, 2) for |x| = ip.fp (+ something below the last digit when
\* sticky): the set of results a binary float can give.  Half way between
\* two hundredths the binary value lies on either side.
Round2(neg, ip, fp, sticky) ==
    LET base == Norm(neg, ip, SubSeq(PadRight(fp, 2), 1, 2))
        away == Add(base, Cent(neg))
        g    == IF Len(fp) >= 3 THEN fp[3] ELSE 0
        tail == sticky \/ \E k \in 4..Len(fp) : fp[k] # 0
    IN  IF g < 5 THEN {base}
        ELSE IF g > 5 \/ tail THEN {away}
        ELSE {base, away}

\* round(v, 2)
Round(v) == Round2(v.neg, v.ip, v.fp, FALSE)

\* round(v / n, 2), n a positive integer
RoundDiv(v, n) ==
    LET F == Max(Len(v.fp), 3)
        D == v.ip \o PadRight(v.fp, F)
        L == Len(D)
        rem[i \in 0..L] == IF i = 0 THEN 0 ELSE (rem[i - 1] * 10 + D[i]) % n
        q == [i \in 1..L |-> (rem[i - 1] * 10 + D[i]) \div n]
    IN  Round2(v.neg, SubSeq(q, 1, Len(v.ip)), SubSeq(q, Len(v.ip) + 1, L),
               rem[L] # 0)

(***************************************************************************)
(* _parse_val                                                              *)
(***************************************************************************)

\* A mutant of KeptChar: the sign survives the cleaning.
KeptCharSigned(c) == IsDigit(c) \/ c = "." \/ c = "-"

\* The characters re.sub(r'[^\d.]', '', ...) keeps.
KeptChar(c) == IsDigit(c) \/ c = "."

\* The strings float() accepts among those over digits, '.' and '-': an
\* optional sign, then digits with at most one '.', at least one digit.
FloatOk(clean) ==
    LET body == IF clean # <<>> /\ clean[1] = "-" THEN Tail(clean) ELSE clean
    IN  /\ \A i \in DOMAIN body : IsDigit(body[i]) \/ body[i] = "."
        /\ Count(".", body) <= 1
        /\ \E i \in DOMAIN body : IsDigit(body[i])

\* A mutant of Float: the value is truncated to its integer part.
FloatTruncated(clean) ==
    LET neg  == clean[1] = "-"
        body == IF neg THEN Tail(clean) ELSE clean
        dot  == IF Count(".", body) = 0 THEN Len(body) + 1
                ELSE CHOOSE i \in DOMAIN body : body[i] = "."
    IN  Norm(neg, [i \in 1..(dot - 1) |-> DigitVal(body[i])], <<>>)

\* float(clean), for FloatOk(clean)
Float(clean) ==
    LET neg  == clean[1] = "-"
        body == IF neg THEN Tail(clean) ELSE clean
        dot  == IF Count(".", body) = 0 THEN Len(body) + 1
                ELSE CHOOSE i \in DOMAIN body : body[i] = "."
        ds(a, b) == IF b < a THEN <<>>
                    ELSE [i \in 1..(b - a + 1) |-> DigitVal(body[a + i - 1])]
    IN  Norm(neg, ds(1, dot - 1), ds(dot + 1, Len(body)))

_parse_val(s) ==
    IF s = <<>> THEN Zero
    ELSE LET clean == SelectSeq(s, KeptChar)
         IN  IF Count(".", clean) > 1 THEN Zero
             ELSE LET c2 == IF clean # <<>> /\ clean[Len(clean)] = "."
                            THEN SubSeq(clean, 1, Len(clean) - 1) ELSE clean
                  IN  IF c2 = <<>> THEN Zero
                      ELSE IF FloatOk(c2) THEN Float(c2)
                      ELSE Zero   \* float() raises ValueError, which is caught

(***************************************************************************)
(* Summary extraction: the three regular expressions of lines 29-33 and    *)
(* _find_by_regex.  The three patterns differ in their labels only: each   *)
(* is a label, then any run of colons and white space, then an optional    *)
(* currency code (two or three letters, the taka sign, the dollar sign,    *)
(* Rs with an optional point, USD with optional points), then white space, *)
(* then the captured group: digits and commas, an optional point, digits.  *)
(* The search ignores case.  A label is a sequence of words joined by      *)
(* white space.  The taka sign and the Bengali keywords are single symbols *)
(* of the model's alphabet.                                                *)
(***************************************************************************)

\* an optional value: None, or a value v as Some(v)
None == <<>>

Some(v) == <<v>>

\* what extract_text gives for a page without text
NoneText == <<"<None>">>

CreditLabels == {<<<<"t", "o", "t", "a", "l">>, <<"c", "r", "e", "d", "i", "t">>>>, <<<<"t", "o",
        "t", "a", "l">>, <<"d", "e", "p", "o", "s", "i", "t">>>>,
                 <<<<"c", "a", "s", "h">>, <<"i", "n">>>>, <<<<"t", "o", "t", "a", "l">>, <<"i",
                         "n">>>>}

DebitLabels == {<<<<"t", "o", "t", "a", "l">>, <<"d", "e", "b", "i", "t">>>>, <<<<"t", "o", "t",
        "a", "l">>, <<"w", "i", "t", "h", "d", "r", "a", "w", "a", "l">>>>,
                <<<<"c", "a", "s", "h">>, <<"o", "u", "t">>>>, <<<<"t", "o", "t", "a", "l">>,
                        <<"o", "u", "t">>>>, <<<<"t", "o", "t", "a", "l">>, <<"f", "e", "e">>>>}

BalanceLabels == {<<<<"c", "l", "o", "s", "i", "n", "g">>, <<"b", "a", "l", "a", "n", "c", "e">>>>,
        <<<<"a", "v", "a", "i", "l", "a", "b", "l", "e">>, <<"b", "a", "l", "a", "n", "c", "e">>>>,
                  <<<<"b", "a", "l", "a", "n", "c", "e">>, <<"a", "s">>, <<"o", "f">>>>}

\* U\.?S\.?D\.? under IGNORECASE
UsdForms == {<<"u", "s", "d">>, <<"u", ".", "s", "d">>, <<"u", "s", ".", "d">>, <<"u", "s", "d",
        ".">>, <<"u", ".", "s", ".", "d">>, <<"u", ".", "s", "d", ".">>, <<"u", "s", ".", "d",
        ".">>,
             <<"u", ".", "s", ".", "d", ".">>}

\* Rs\.? under IGNORECASE
RsForms == {<<"r", "s">>, <<"r", "s", ".">>}

\* the first position from i on whose character is not in the class P, or
\* Len(t) + 1: where a greedy P* starting at i ends
SkipWhile(t, i, P) ==
    LET S == {k \in i..(Len(t) + 1) : k > Len(t) \/ t[k] \notin P}
    IN  CHOOSE k \in S : \A m \in S : k <= m

\* [:\s]
SepChars == SpaceSet \cup {":"}

\* [\d,]
NumChars == DigitSet \cup {","}

\* t[i..] starts with w
StartsAt(t, i, w) == i + Len(w) - 1 <= Len(t) /\ SubSeq(t, i, i + Len(w) - 1) = w

\* the position after a match of the label ws at i in the lower-cased text t, or 0
RECURSIVE LabelEnd(_, _, _)
LabelEnd(t, i, ws) ==
    LET e == i + Len(Head(ws))
    IN  IF ~ StartsAt(t, i, Head(ws)) THEN 0
        ELSE IF Len(ws) = 1 THEN e
        ELSE LET k == SkipWhile(t, e, SpaceSet)
             IN  IF k = e THEN 0 ELSE LabelEnd(t, k, Tail(ws))

\* the positions after the optional currency code starting at p
CurrencyEnds(t, p) ==
    {p}
    \cup {p + n : n \in {m \in 2..3 : p + m - 1 <= Len(t)
                                     /\ \A k \in p..(p + m - 1) : IsLetter(t[k])}}
    \cup {p + 1 : c \in {x \in {"<taka>", "$"} : StartsAt(t, p, <<x>>)}}
    \cup {p + Len(f) : f \in {x \in RsForms \cup UsdForms : StartsAt(t, p, x)}}

\* the captured group [\d,]+\.?\d* starting at g
GroupAt(t, g) ==
    LET m1 == SkipWhile(t, g, NumChars)
        m2 == IF m1 <= Len(t) /\ t[m1] = "." THEN m1 + 1 ELSE m1
        m3 == SkipWhile(t, m2, DigitSet)
    IN  SubSeq(t, g, m3 - 1)

\* the groups captured by the matches of a pattern that start at i; t is the
\* text in lower case
MatchesAt(labels, text, t, i) ==
    {GroupAt(text, g) :
        g \in {k \in {SkipWhile(t, c, SpaceSet) :
                        c \in UNION {CurrencyEnds(t, SkipWhile(t, e, SepChars)) :
                                       e \in {LabelEnd(t, i, ws) : ws \in labels} \ {0}}} :
                 k <= Len(text) /\ text[k] \in NumChars}}

\* the positions where a match of the pattern starts
MatchStarts(labels, text) ==
    LET t == Lower(text)
    IN  {i \in DOMAIN text : MatchesAt(labels, text, t, i) # {}}

\* A mutant of FirstMatch: the last match of the text is taken.
LastMatch(labels, text) ==
    LET S == MatchStarts(labels, text)
    IN  IF S = {} THEN 0 ELSE CHOOSE i \in S : \A k \in S : k <= i

\* re.search: the leftmost position where the pattern matches, or 0
FirstMatch(labels, text) ==
    LET S == MatchStarts(labels, text)
    IN  IF S = {} THEN 0 ELSE CHOOSE i \in S : \A k \in S : i <= k

_find_by_regex(labels, text) ==
    LET i == FirstMatch(labels, text)
    IN  IF i = 0 THEN None
        ELSE Some(_parse_val(CHOOSE s \in MatchesAt(labels, text, Lower(text), i) : TRUE))

(***************************************************************************)
(* Table extraction (lines 19-24)                                          *)
(***************************************************************************)

\* a cell pdfplumber leaves empty
NoneCell == <<"<None>">>

\* str.strip()
RECURSIVE Strip(_)
Strip(s) ==
    IF s # <<>> /\ IsSpace(s[1]) THEN Strip(Tail(s))
    ELSE IF s # <<>> /\ IsSpace(s[Len(s)]) THEN Strip(SubSeq(s, 1, Len(s) - 1))
    ELSE s

\* str(cell).strip() if cell else ""
CleanCell(cell) == IF cell = NoneCell \/ cell = <<>> THEN <<>> ELSE Strip(cell)

\* clean_row of line 22
CleanRow(row) == [j \in DOMAIN row |-> CleanCell(row[j])]

\* any(clean_row)
AnyCell(row) == \E j \in DOMAIN row : row[j] # <<>>

\* the rows one page appends to all_rows, over all its tables in order
RECURSIVE PageRows(_)
PageRows(tables) ==
    IF tables = <<>> THEN <<>>
    ELSE SelectSeq([k \in DOMAIN Head(tables) |-> CleanRow(Head(tables)[k])], AnyCell)
         \o PageRows(Tail(tables))

\* page.extract_text() or ""
PageText(page) == IF page.text = NoneText THEN <<>> ELSE page.text

(***************************************************************************)
(* Column identification (lines 48-68).  Indexes count from 0, as          *)
(* enumerate gives them; -1 is "not identified".                           *)
(***************************************************************************)

HeaderRows == 20

NoColumns == [credit_idx |-> -1, debit_idx |-> -1, balance_idx |-> -1,
              amount_idx |-> -1, type_idx |-> -1]

KwBalance == {<<"b", "a", "l", "a", "n", "c", "e">>, <<"a", "v", "a", "i", "l", "a", "b", "l",
        "e">>, <<"<bn:sthiti>">>}
KwAmount  == {<<"a", "m", "o", "u", "n", "t">>, <<"t", "r", "a", "n", "s", "a", "c", "t", "i", "o",
        "n", " ", "a", "m", "o", "u", "n", "t">>, <<"<bn:poriman>">>}
KwCredit  == {<<"c", "r", "e", "d", "i", "t">>, <<"d", "e", "p", "o", "s", "i", "t">>, <<"r", "e",
        "c", "e", "i", "v", "e", "d">>, <<"<bn:joma>">>}
KwDebit   == {<<"d", "e", "b", "i", "t">>, <<"w", "i", "t", "h", "d", "r", "a", "w", "a", "l">>,
        <<"o", "u", "t">>, <<"p", "a", "y", "m", "e", "n", "t">>, <<"<bn:khoroch>">>}
KwType    == {<<"s", "t", "a", "t", "u", "s">>, <<"t", "y", "p", "e">>, <<"d", "e", "s", "c", "r",
        "i", "p", "t", "i", "o", "n">>, <<"p", "a", "r", "t", "i", "c", "u", "l", "a", "r", "s">>}
KwTypeTokens == {<<"c", "r", "e", "d", "i", "t">>, <<"d", "e", "b", "i", "t">>, <<"r", "e", "c",
        "e", "i", "v", "e", "d">>, <<"p", "a", "y", "m", "e", "n", "t">>}

\* A mutant of IdentifyCell: a role is written whether or not it is assigned.
IdentifyCellLast(ix, j, cell) ==
    IF ContainsAny(KwBalance, cell) THEN [ix EXCEPT !.balance_idx = j]
    ELSE IF ContainsAny(KwAmount, cell) THEN [ix EXCEPT !.amount_idx = j]
    ELSE IF ContainsAny(KwCredit, cell) THEN [ix EXCEPT !.credit_idx = j]
    ELSE IF ContainsAny(KwDebit, cell) THEN [ix EXCEPT !.debit_idx = j]
    ELSE IF ContainsAny(KwType, cell) /\ ContainsAny(KwTypeTokens, cell)
        THEN [ix EXCEPT !.type_idx = j]
    ELSE ix

\* A mutant of IdentifyCell: the tests are separate ifs, so that a cell
\* assigns every unassigned role it matches.
IdentifyCellEvery(ix, j, cell) ==
    LET set(role, kw) == IF ix[role] = -1 /\ ContainsAny(kw, cell) THEN j ELSE ix[role]
    IN  [balance_idx |-> set("balance_idx", KwBalance),
         amount_idx  |-> set("amount_idx", KwAmount),
         credit_idx  |-> set("credit_idx", KwCredit),
         debit_idx   |-> set("debit_idx", KwDebit),
         type_idx    |-> IF ContainsAny(KwTypeTokens, cell)
                         THEN set("type_idx", KwType) ELSE ix.type_idx]

\* A mutant of IdentifyCell: a type keyword alone assigns the type role.
IdentifyCellTypeAlone(ix, j, cell) ==
    IF ix.balance_idx = -1 /\ ContainsAny(KwBalance, cell)
        THEN [ix EXCEPT !.balance_idx = j]
    ELSE IF ix.amount_idx = -1 /\ ContainsAny(KwAmount, cell)
        THEN [ix EXCEPT !.amount_idx = j]
    ELSE IF ix.credit_idx = -1 /\ ContainsAny(KwCredit, cell)
        THEN [ix EXCEPT !.credit_idx = j]
    ELSE IF ix.debit_idx = -1 /\ ContainsAny(KwDebit, cell)
        THEN [ix EXCEPT !.debit_idx = j]
    ELSE IF ix.type_idx = -1 /\ ContainsAny(KwType, cell)
        THEN [ix EXCEPT !.type_idx = j]
    ELSE ix

\* A mutant of IdentifyCell: the type role is tested before the others.
IdentifyCellTypeFirst(ix, j, cell) ==
    IF ix.type_idx = -1 /\ ContainsAny(KwType, cell) /\ ContainsAny(KwTypeTokens, cell)
        THEN [ix EXCEPT !.type_idx = j]
    ELSE IF ix.balance_idx = -1 /\ ContainsAny(KwBalance, cell)
        THEN [ix EXCEPT !.balance_idx = j]
    ELSE IF ix.amount_idx = -1 /\ ContainsAny(KwAmount, cell)
        THEN [ix EXCEPT !.amount_idx = j]
    ELSE IF ix.credit_idx = -1 /\ ContainsAny(KwCredit, cell)
        THEN [ix EXCEPT !.credit_idx = j]
    ELSE IF ix.debit_idx = -1 /\ ContainsAny(KwDebit, cell)
        THEN [ix EXCEPT !.debit_idx = j]
    ELSE ix

\* one pass of the if/elif chain of lines 58-68 for the lower-cased cell at index j
IdentifyCell(ix, j, cell) ==
    IF ix.balance_idx = -1 /\ ContainsAny(KwBalance, cell)
        THEN [ix EXCEPT !.balance_idx = j]
    ELSE IF ix.amount_idx = -1 /\ ContainsAny(KwAmount, cell)
        THEN [ix EXCEPT !.amount_idx = j]
    ELSE IF ix.credit_idx = -1 /\ ContainsAny(KwCredit, cell)
        THEN [ix EXCEPT !.credit_idx = j]
    ELSE IF ix.debit_idx = -1 /\ ContainsAny(KwDebit, cell)
        THEN [ix EXCEPT !.debit_idx = j]
    ELSE IF ix.type_idx = -1 /\ ContainsAny(KwType, cell)
        THEN IF ContainsAny(KwTypeTokens, cell) THEN [ix EXCEPT !.type_idx = j] ELSE ix
    ELSE ix

\* the inner loop of lines 56-68 from the cell at index j on
RECURSIVE IdentifyFrom(_, _, _)
IdentifyFrom(ix, row, j) ==
    IF j >= Len(row) THEN ix
    ELSE IdentifyFrom(IdentifyCell(ix, j, Lower(row[j + 1])), row, j + 1)

\* one iteration of "for row in all_rows[:20]"
IdentifyRow(ix, row) == IdentifyFrom(ix, row, 0)

(***************************************************************************)
(* Row processing (lines 70-106)                                           *)
(***************************************************************************)

MaxDigits == 11

\* [-/.]
DateSeps == {"-", "/", "."}

AllAt(s, a, b, P) == b <= Len(s) /\ \A k \in a..b : s[k] \in P

\* A mutant of HasDate: any digit passes for a date.
HasDigit(s) == \E i \in DOMAIN s : IsDigit(s[i])

\* date_pattern.search(s): \d{1,4}[-/.]\d{1,2}[-/.]\d{2,4}
HasDate(s) ==
    \E i \in DOMAIN s : \E y \in 1..4 :
        /\ AllAt(s, i, i + y - 1, DigitSet)
        /\ AllAt(s, i + y, i + y, DateSeps)
        /\ \E m \in 1..2 :
            /\ AllAt(s, i + y + 1, i + y + m, DigitSet)
            /\ AllAt(s, i + y + m + 1, i + y + m + 1, DateSeps)
            /\ \E d \in 2..4 : AllAt(s, i + y + m + 2, i + y + m + d + 1, DigitSet)

\* " ".join(row)
RECURSIVE Join(_)
Join(row) ==
    IF row = <<>> THEN <<>>
    ELSE IF Len(row) = 1 THEN row[1]
    ELSE row[1] \o <<" ">> \o Join(Tail(row))

\* len(re.sub(r'[^\d]', '', cell))
DigitCount(cell) == Len(SelectSeq(cell, IsDigit))

\* A mutant of IsCandidate: the digit-length guard is missing.
IsCandidateUnguarded(cell) == Positive(_parse_val(cell))

\* lines 80-84: the cell is recorded in row_vals
IsCandidate(cell) == Positive(_parse_val(cell)) /\ DigitCount(cell) <= MaxDigits

\* A mutant of RowVals: the candidates are recorded last to first.
RowValsReversed(row) ==
    LET keep(j) == IsCandidate(row[j])
        found == SelectSeq([j \in DOMAIN row |-> j], keep)
    IN  [k \in DOMAIN found |-> found[Len(found) + 1 - k] - 1]

\* row_vals of lines 78-84: the indexes (from 0) of the candidates, in order
RowVals(row) ==
    LET keep(j) == IsCandidate(row[j])
    IN  [k \in DOMAIN SelectSeq([j \in DOMAIN row |-> j], keep) |->
            SelectSeq([j \in DOMAIN row |-> j], keep)[k] - 1]

\* the tokens of line 91
TypeGeneric == {<<"c", "r", "e", "d", "i", "t">>, <<"r", "e", "c", "e", "i", "v", "e", "d">>,
        <<"i", "n">>, <<"d", "e", "p", "o", "s", "i", "t">>, <<"s", "u", "c", "c", "e", "s", "s",
        "f", "u", "l">>}

\* A mutant of TypeCredit: the generic tokens count as credit tokens.
TypeCreditWide == {<<"r", "e", "c", "e", "i", "v", "e", "d">>, <<"c", "a", "s", "h", " ", "i",
        "n">>, <<"d", "e", "p", "o", "s", "i", "t">>, <<"c", "r", "e", "d", "i", "t">>, <<"i",
        "n">>,
                   <<"s", "u", "c", "c", "e", "s", "s", "f", "u", "l">>}

\* the tokens of line 92
TypeCredit  == {<<"r", "e", "c", "e", "i", "v", "e", "d">>, <<"c", "a", "s", "h", " ", "i", "n">>,
        <<"d", "e", "p", "o", "s", "i", "t">>}

\* the tokens of line 93
TypeDebit   == {<<"p", "a", "y", "m", "e", "n", "t">>, <<"s", "e", "n", "t">>, <<"c", "a", "s",
        "h", " ", "o", "u", "t">>, <<"w", "i", "t", "h", "d", "r", "a", "w">>}

\* the row has a cell at index j (from 0) and the column is identified
HasCol(row, j) == j # -1 /\ j < Len(row)

\* A mutant of TypeAmountMode: every row is handled by the credit and debit
\* columns.
TypeAmountModeNever(ix, row) == FALSE

\* line 88: the type/amount mode applies to the row
TypeAmountMode(ix, row) == HasCol(row, ix.type_idx) /\ HasCol(row, ix.amount_idx)

\* A mutant of Classify: a type cell that matches nothing counts as a credit.
ClassifyDefaultCredit(t) ==
    IF ContainsAny(TypeGeneric, t) /\ ~ ContainsAny(TypeCredit, t)
        /\ ContainsAny(TypeDebit, t)
    THEN "total_debit" ELSE "total_credit"

\* lines 91-93: the accumulator the lower-cased type cell t sends the amount to
Classify(t) ==
    IF ContainsAny(TypeGeneric, t)
    THEN IF ContainsAny(TypeCredit, t) THEN "total_credit"
         ELSE IF ContainsAny(TypeDebit, t) THEN "total_debit"
         ELSE "neither"
    ELSE "neither"

\* The additions one row makes (lines 73-106), in order: each names the
\* accumulator, the cell's index (from 0), the value and the path taken.
Additions(ix, row) ==
    IF ~ HasDate(Join(row)) THEN <<>>
    ELSE IF RowVals(row) = <<>> THEN <<>>
    ELSE
      LET cell(j) == row[j + 1]
          one(to, j, via) ==
              <<[to |-> to, col |-> j, v |-> _parse_val(cell(j)), via |-> via]>>
          t == Lower(cell(ix.type_idx))
          moves ==
              IF TypeAmountMode(ix, row)
              THEN IF Classify(t) = "neither" THEN <<>>
                   ELSE one(Classify(t), ix.amount_idx, "amount")
              ELSE (IF HasCol(row, ix.credit_idx)
                        /\ Truthy(_parse_val(cell(ix.credit_idx)))
                    THEN one("total_credit", ix.credit_idx, "column") ELSE <<>>)
                   \o
                   (IF HasCol(row, ix.debit_idx)
                        /\ Truthy(_parse_val(cell(ix.debit_idx)))
                    THEN one("total_debit", ix.debit_idx, "column") ELSE <<>>)
          last == RowVals(row)[Len(RowVals(row))]
          bal ==
              IF HasCol(row, ix.balance_idx)
              THEN IF Truthy(_parse_val(cell(ix.balance_idx)))
                   THEN one("balances", ix.balance_idx, "column") ELSE <<>>
              ELSE one("balances", last, "proxy")
      IN  moves \o bal

NoAcc == [total_credit |-> Zero, total_debit |-> Zero, balances |-> <<>>]

\* A mutant of Apply: the totals are overwritten, not added to.
RECURSIVE ApplyOverwrite(_, _)
ApplyOverwrite(ac, ads) ==
    IF ads = <<>> THEN ac
    ELSE LET a == Head(ads)
             nx == IF a.to = "total_credit"
                       THEN [ac EXCEPT !.total_credit = a.v]
                   ELSE IF a.to = "total_debit"
                       THEN [ac EXCEPT !.total_debit = a.v]
                   ELSE [ac EXCEPT !.balances = Append(@, a.v)]
         IN  ApplyOverwrite(nx, Tail(ads))

\* the accumulators after the additions ads
RECURSIVE Apply(_, _)
Apply(ac, ads) ==
    IF ads = <<>> THEN ac
    ELSE LET a == Head(ads)
             nx == IF a.to = "total_credit"
                       THEN [ac EXCEPT !.total_credit = Add(@, a.v)]
                   ELSE IF a.to = "total_debit"
                       THEN [ac EXCEPT !.total_debit = Add(@, a.v)]
                   ELSE [ac EXCEPT !.balances = Append(@, a.v)]
         IN  Apply(nx, Tail(ads))

\* one iteration of "for row in all_rows" (lines 73-106)
ProcessRow(ac, ix, row) == Apply(ac, Additions(ix, row))

(***************************************************************************)
(* The results (lines 41, 108-112, 116)                                    *)
(***************************************************************************)

NoResult == <<>>

\* A mutant of ZeroTriple: the handler gives no triple.
Reraised == NoResult

\* line 116: what the except handler returns
ZeroTriple == <<Zero, Zero, Zero>>

NoSummary == [summary_credit |-> None, summary_debit |-> None, summary_balance |-> None]

OrZero(v) == IF v = None THEN Zero ELSE v[1]

\* line 41: the triples the early return can give
SummaryTriples(sm) ==
    {<<c, d, b>> : c \in Round(sm.summary_credit[1]), d \in Round(sm.summary_debit[1]),
                   b \in Round(OrZero(sm.summary_balance))}

\* A mutant of AvgBalance: the summary balance wins over the table's.
AvgBalanceSummaryFirst(sm, ac) ==
    IF sm.summary_balance # None THEN Round(sm.summary_balance[1])
    ELSE IF ac.balances # <<>> THEN RoundDiv(Sum(ac.balances), Len(ac.balances))
    ELSE Round(Zero)

\* line 110 and its rounding in line 112
AvgBalance(sm, ac) ==
    IF ac.balances # <<>> THEN RoundDiv(Sum(ac.balances), Len(ac.balances))
    ELSE Round(OrZero(sm.summary_balance))

\* A mutant of FinalCredit: the table's total wins over the summary's.
FinalCreditTableFirst(sm, ac) ==
    Round(IF Truthy(ac.total_credit) \/ sm.summary_credit = None
          THEN ac.total_credit ELSE sm.summary_credit[1])

\* line 108 and its rounding in line 112
FinalCredit(sm, ac) ==
    Round(IF sm.summary_credit # None THEN sm.summary_credit[1] ELSE ac.total_credit)

\* line 109 and its rounding in line 112
FinalDebit(sm, ac) ==
    Round(IF sm.summary_debit # None THEN sm.summary_debit[1] ELSE ac.total_debit)

\* line 112: the triples the table path can give
TableTriples(sm, ac) ==
    {<<c, d, b>> : c \in FinalCredit(sm, ac), d \in FinalDebit(sm, ac),
                   b \in AvgBalance(sm, ac)}

(***************************************************************************)
(* The documents the calls are run on.  A document is what pdfplumber      *)
(* gives for file_path: unreadable, or a sequence of pages, each with its  *)
(* text and the rows of its tables.                                        *)
(***************************************************************************)

MaxRows == 3
MaxPages == 2
MaxLen == 4

Texts == {
    NoneText,
    <<"T", "o", "t", "a", "l", " ", "C", "r", "e", "d", "i", "t", ":", " ", "U", "G", "X", " ",
            "5", ",", "0", "0", "0", ",", "0", "0", "0", "\n", "T", "o", "t", "a", "l", " ", "D",
            "e", "b", "i", "t", ":", " ", "U", "G", "X", " ", "3", ",", "2", "0", "0", ",", "0",
            "0", "0">>,
    <<"T", "o", "t", "a", "l", " ", "C", "r", "e", "d", "i", "t", "s", " ", "9", " ", "T", "o",
            "t", "a", "l", " ", "C", "r", "e", "d", "i", "t", ":", " ", "1", ",", "0", "0", "0",
            ".", "5", "0">>,
    <<"C", "a", "s", "h", " ", "O", "u", "t", " ", "2", "5", "0", " ", "C", "l", "o", "s", "i",
            "n", "g", " ", "B", "a", "l", "a", "n", "c", "e", ":", " ", "$", " ", "9", "9", ".",
            "9", "9", "9">>,
    <<"t", "o", "t", "a", "l", " ", "d", "e", "p", "o", "s", "i", "t", " ", "7", " ", "T", "o",
            "t", "a", "l", " ", "C", "r", "e", "d", "i", "t", ":", " ", "8", "\n", "T", "o", "t",
            "a", "l", " ", "F", "e", "e", ":", " ", "R", "s", ".", " ", "0", ".", "1", "2", "5",
            "\n", "A", "v", "a", "i", "l", "a", "b", "l", "e", " ", "B", "a", "l", "a", "n", "c",
            "e", " ", "4", "0">> }

HeaderRow == <<<<"D", "a", "t", "e">>, <<"D", "e", "s", "c", "r", "i", "p", "t", "i", "o", "n">>,
        <<"C", "r", "e", "d", "i", "t">>, <<"D", "e", "b", "i", "t">>, <<"B", "a", "l", "a", "n",
        "c", "e">>>>

Rows == {
    HeaderRow,
    <<<<"0", "1", "/", "0", "2", "/", "2", "0", "2", "4">>, <<"D", "e", "p", "o", "s", "i", "t">>,
            <<" ", "U", "G", "X", " ", "1", ",", "0", "0", "0", " ">>, NoneCell, <<"1", "0", "0",
            "0", "0", "0">>>>,
    <<<<"0", "2", "-", "0", "2", "-", "2", "4">>, <<"P", "a", "y", "m", "e", "n", "t", " ", "t",
            "y", "p", "e", " ", "s", "e", "n", "t">>, <<"1", ".", "2", ".", "3">>, <<"-", "2", "5",
            "0", ".", "5", "0">>, <<"1", "5", "0", "0", "0", "0", ".", "0", "0", "5">>>>,
    <<<<"0", "6", "/", "0", "2", "/", "2", "0", "2", "4">>, <<"A", "m", "o", "u", "n", "t", " ",
            "7", "5", " ", "r", "e", "c", "e", "i", "v", "e", "d">>, <<"1", "0">>, <<"5">>, <<"5",
            "0">>>>,
    <<<<"T", "o", "t", "a", "l">>, <<>>, <<"9", ",", "9", "9", "9">>, <<"8", ",", "8", "8", "8">>,
            <<"1", "2", "3", "4", "5", "6", "7", "8", "9", "0", "1">>>>,
    <<<<"0", "4", "/", "0", "2", "/", "2", "0", "2", "4">>, <<"A", "c", "c", "t", " ", "1", "2",
            "3", "4", "5", "6", "7", "8", "9", "0", "1">>, <<"1", "2", "3", "4", "5", "6", "7",
            "8", "9", "0", "1", "2">>, <<>>, <<>>>>,
    <<<<"0", "4", ".", "0", "2", ".", "2", "0", "2", "4">>, NoneCell, <<"1", "2", "3", "4", "5",
            "6", "7", "8", "9", "0", "1", "2">>, <<>>, <<>>>> }

\* tables with a row without text, with a row shorter than the header, and
\* with a row whose only number is a twelve-digit balance
OddTables == {
    <<<<NoneCell, <<>>, <<" ">>>>, HeaderRow, <<<<"0", "8", "/", "0", "2", "/", "2", "0", "2",
            "4">>, <<"9", "9">>>>>>,
    <<HeaderRow, <<<<"0", "4", ".", "0", "2", ".", "2", "0", "2", "4">>, <<>>, <<>>, <<>>, <<"1",
            "2", "3", "4", "5", "6", "7", "8", "9", "0", "1", "2">>>>>>,
    <<<<<<"0", "8", "/", "0", "2", "/", "2", "0", "2", "4">>, <<"9", "9">>>>, <<NoneCell, <<>>,
            <<" ">>>>>> }

\* the sequences over S of length at most n
SeqsUpTo(S, n) == UNION {[1..k -> S] : k \in 0..n}

\* a statement that names the kind of each transaction: the first row gives
\* the credit, debit, type and amount columns
TypeHeader == <<<<"D", "a", "t", "e">>, <<"R", "e", "c", "e", "i", "v", "e", "d">>, <<"P", "a",
        "y", "m", "e", "n", "t">>, <<"T", "y", "p", "e", " ", "p", "a", "y", "m", "e", "n", "t">>,
        <<"A", "m", "o", "u", "n", "t">>>>

TypeRows == {
    <<<<"0", "5", "/", "0", "2", "/", "2", "0", "2", "4">>, <<"1", "1">>, <<"2", "2">>, <<"P", "a",
            "y", "m", "e", "n", "t", " ", "s", "e", "n", "t">>, <<"3", "0", "0">>>>,
    <<<<"0", "6", "/", "0", "2", "/", "2", "0", "2", "4">>, <<>>, <<>>, <<"C", "a", "s", "h", " ",
            "I", "n", " ", "r", "e", "c", "e", "i", "v", "e", "d">>, <<"7", "5">>>>,
    <<<<"0", "7", "/", "0", "2", "/", "2", "0", "2", "4">>, <<>>, <<>>, <<"P", "a", "y", "m", "e",
            "n", "t", " ", "i", "n", " ", "s", "h", "o", "p">>, <<"4", "0">>>>,
    <<<<"0", "8", "/", "0", "2", "/", "2", "0", "2", "4">>, <<"1", "1">>, <<>>, <<"S", "u", "c",
            "c", "e", "s", "s", "f", "u", "l">>, <<"2", "0">>>>,
    <<<<"0", "9", "/", "0", "2", "/", "2", "0", "2", "4">>, <<>>, <<"2", "2">>, <<"R", "e", "f",
            "u", "n", "d">>, <<"2", "0">>>> }

TypeTables == {<<TypeHeader>> \o rs : rs \in SeqsUpTo(TypeRows, MaxRows - 1)}

\* the rows of page k of n, when the rows rs are laid out over n pages in order
Chunk(rs, n, k) ==
    LET c == (Len(rs) + n - 1) \div n
    IN  SubSeq(rs, (k - 1) * c + 1, IF k * c <= Len(rs) THEN k * c ELSE Len(rs))

Document(ts, rs) ==
    [readable |-> TRUE,
     pages |-> [k \in DOMAIN ts |-> [text |-> ts[k], tables |-> <<Chunk(rs, Len(ts), k)>>]]]

\* a missing, corrupt or encrypted file
Unreadable == [readable |-> FALSE, pages |-> <<>>]

\* the example of the summary-precedence property
ExampleText == <<"T", "o", "t", "a", "l", " ", "C", "r", "e", "d", "i", "t", ":", " ", "U", "G",
        "X", " ", "5", ",", "0", "0", "0", ",", "0", "0", "0", "\n", "T", "o", "t", "a", "l", " ",
        "D", "e", "b", "i", "t", ":", " ", "U", "G", "X", " ", "3", ",", "2", "0", "0", ",", "0",
        "0", "0">>

ExampleTable == <<HeaderRow,
    <<<<"0", "1", "/", "0", "2", "/", "2", "0", "2", "4">>, <<"D", "e", "p", "o", "s", "i", "t">>,
            <<"1", ",", "0", "0", "0">>, <<>>, <<"1", "0", "0", "0", "0", "0">>>>,
    <<<<"0", "2", "/", "0", "2", "/", "2", "0", "2", "4">>, <<"P", "a", "y", "m", "e", "n", "t">>,
            <<>>, <<"2", "5", "0", ".", "5", "0">>, <<"1", "5", "0", "0", "0", "0">>>>,
    <<<<"0", "3", "/", "0", "2", "/", "2", "0", "2", "4">>, <<"S", "a", "l", "a", "r", "y">>,
            <<"5", "0", "0">>, <<>>, <<"2", "0", "0", "0", "0", "0">>>>>>

ExampleDocument == Document(<<ExampleText>>, ExampleTable)

\* the tables of the one-page documents: with or without the header row,
\* then up to MaxRows - 1 other rows
Tables ==
    {h \o rs : h \in {<<>>, <<HeaderRow>>},
               rs \in SeqsUpTo(Rows \ {HeaderRow}, MaxRows - 1)}

\* n rows of a cover page or a letterhead: text, no keyword, no date
Filler(n) == [k \in 1..n |-> <<<<"-">>>>]

\* tables of more than HeaderRows rows over two pages: a row without text
\* that extraction drops, then the header as row number HeaderRows or
\* HeaderRows + 1 of all_rows, then a transaction
LongTables ==
    {<<<<NoneCell, <<>>, <<" ">>>>>> \o Filler(n)
        \o <<HeaderRow, <<<<"0", "1", "/", "0", "2", "/", "2", "0", "2", "4">>, <<"D", "e", "p",
                "o", "s", "i", "t">>, <<"1", ",", "0", "0", "0">>, <<"2", "0">>, <<"1", "0", "0",
                "0", "0", "0">>>>>> :
     n \in {HeaderRows - 1, HeaderRows}}

\* a summary whose first credit match is a zero, and no debit
ZeroText == <<"T", "o", "t", "a", "l", " ", "I", "n", ":", " ", "B", "D", "T", " ", "0", ".", "0",
        "0", "\n", "C", "a", "s", "h", " ", "I", "n", " ", "1", "2">>

\* the page texts of the documents of several pages
PageTexts == {NoneText, ExampleText, <<"T", "o", "t", "a", "l", " ", "C", "r", "e", "d", "i", "t",
        "s", " ", "9", " ", "T", "o", "t", "a", "l", " ", "C", "r", "e", "d", "i", "t", ":", " ",
        "1", ",", "0", "0", "0", ".", "5", "0">>}

Documents ==
    {Unreadable, ExampleDocument, [readable |-> TRUE, pages |-> <<>>]}
    \cup {Document(<<t>>, rs) : t \in Texts, rs \in OddTables \cup Tables}
    \cup {Document(<<ZeroText>>, <<HeaderRow, r>>) : r \in Rows \ {HeaderRow}}
    \cup {Document(<<NoneText>>, rs) : rs \in TypeTables}
    \cup {Document(<<NoneText, NoneText>>, rs) : rs \in LongTables}
    \cup {Document(ts, rs) :
            ts \in SeqsUpTo(PageTexts, MaxPages) \ SeqsUpTo(PageTexts, 1),
            rs \in SeqsUpTo(Rows, MaxRows - 2)}

\* the documents of the concurrent calls
SharedDocuments ==
    {Unreadable, Document(<<ExampleText>>, <<HeaderRow>>)}
    \cup {Document(<<t>>, SubSeq(ExampleTable, 1, n)) :
            t \in {NoneText, <<"T", "o", "t", "a", "l", " ", "C", "r", "e", "d", "i", "t", ":",
                    " ", "1", ",", "0", "0", "0", ".", "5", "0">>}, n \in {0, MaxRows - 1}}

\* the arguments of the calls of _parse_val under test
ParseChars == {"0", "1", "5", ".", ",", "-", "U"}

ParseInputs ==
    SeqsUpTo(ParseChars, MaxLen)
    \cup {<<"1", "2", ",", "3", "4", "5", ".", "6", "7">>, <<"U", "G", "X", " ", "1", ",", "0",
            "0", "0">>, <<"1", ".", "2", ".", "3">>, <<"-", "5", "0", "0">>, <<"5", "0", "0">>}

(***************************************************************************)
(* The calls.  Each invocation p of extract_financial_metrics has its own  *)
(* frame of locals; the module holds no state of its own.                  *)
(***************************************************************************)

NotCalled == <<>>

Procs == DOMAIN pc

\* A mutant of acc_of: the accumulators are module-level, shared by all calls.
acc_shared(p) == CHOOSE q \in Procs : \A r \in Procs : q <= r

\* the frame that holds the accumulators of invocation p (locals, lines 44-46)
acc_of(p) == p

InitCalls(procs, docs) ==
    /\ doc \in [procs -> docs]
    /\ pc = [p \in procs |-> "call"]
    /\ pdf = [p \in procs |-> "unopened"]
    /\ page_no = [p \in procs |-> 0]
    /\ all_text = [p \in procs |-> <<>>]
    /\ all_rows = [p \in procs |-> <<>>]
    /\ summary = [p \in procs |-> NoSummary]
    /\ idx = [p \in procs |-> NoColumns]
    /\ row_no = [p \in procs |-> 0]
    /\ acc = [p \in procs |-> NoAcc]
    /\ result = [p \in procs |-> NoResult]
    /\ raised = [p \in procs |-> FALSE]
    /\ stages = [p \in procs |-> {}]
    /\ added = [p \in procs |-> <<>>]

\* no request is under way, nothing was loaded, no score is asked for
WebIdle ==
    /\ request = <<>>
    /\ temp_uploads = <<>>
    /\ df_original = <<>>
    /\ df_processed = <<>>
    /\ answer = <<>>
    /\ client_row = <<>>
    /\ client_score = <<>>

Init ==
    /\ InitCalls({1}, Documents)
    /\ val_str = <<>>
    /\ parsed = NotCalled
    /\ WebIdle

InitShared ==
    /\ InitCalls({1, 2}, SharedDocuments)
    /\ val_str = <<>>
    /\ parsed = NotCalled
    /\ WebIdle

InitParse ==
    /\ InitCalls({}, {})
    /\ val_str \in ParseInputs
    /\ parsed = NotCalled
    /\ WebIdle

\* A mutant of WithExit: leaving the block leaves the file as it is.
WithLeak(handle) == handle

\* line 10: leaving the with block, by return or by exception, closes the file
WithExit(handle) == "closed"

\* line 10, the file opens: all_text and all_rows start empty (lines 11-12)
Open(p) ==
    /\ pc[p] = "call"
    /\ doc[p].readable
    /\ pdf' = [pdf EXCEPT ![p] = "open"]
    /\ all_text' = [all_text EXCEPT ![p] = <<>>]
    /\ all_rows' = [all_rows EXCEPT ![p] = <<>>]
    /\ page_no' = [page_no EXCEPT ![p] = 1]
    /\ pc' = [pc EXCEPT ![p] = IF doc[p].pages = <<>> THEN "summary" ELSE "pages"]
    /\ UNCHANGED <<webvars, doc, summary, idx, row_no, acc, result, raised, stages, added,
                   val_str, parsed>>

\* line 10 raises (no such file, not a PDF); lines 114-116 return the zero triple
OpenFails(p) ==
    /\ pc[p] = "call"
    /\ ~ doc[p].readable
    /\ raised' = [raised EXCEPT ![p] = TRUE]
    /\ result' = [result EXCEPT ![p] = ZeroTriple]
    /\ pc' = [pc EXCEPT ![p] = "returned"]
    /\ UNCHANGED <<webvars, doc, pdf, page_no, all_text, all_rows, summary, idx, row_no, acc,
                   stages, added, val_str, parsed>>

\* lines 14-24: one iteration of "for page in pdf.pages"
ExtractPage(p) ==
    /\ pc[p] = "pages"
    /\ LET page == doc[p].pages[page_no[p]]
       IN  /\ all_text' = [all_text EXCEPT ![p] = @ \o PageText(page) \o <<"\n">>]
           /\ all_rows' = [all_rows EXCEPT ![p] = @ \o PageRows(page.tables)]
    /\ page_no' = [page_no EXCEPT ![p] = @ + 1]
    /\ pc' = [pc EXCEPT ![p] = IF page_no[p] = Len(doc[p].pages) THEN "summary" ELSE "pages"]
    /\ UNCHANGED <<webvars, doc, pdf, summary, idx, row_no, acc, result, raised, stages, added,
                   val_str, parsed>>

\* lines 29-37
SummaryExtraction(p) ==
    /\ pc[p] = "summary"
    /\ summary' = [summary EXCEPT ![p] =
            [summary_credit  |-> _find_by_regex(CreditLabels, all_text[p]),
             summary_debit   |-> _find_by_regex(DebitLabels, all_text[p]),
             summary_balance |-> _find_by_regex(BalanceLabels, all_text[p])]]
    /\ stages' = [stages EXCEPT ![p] = @ \cup {"summary"}]
    /\ pc' = [pc EXCEPT ![p] = "check"]
    /\ UNCHANGED <<webvars, doc, pdf, page_no, all_text, all_rows, idx, row_no, acc, result,
                   raised, added, val_str, parsed>>

\* line 40
BothFound(sm) == sm.summary_credit # None /\ sm.summary_debit # None

\* lines 40-41: the early return; leaving the with block closes the file
EarlyReturn(p) ==
    /\ pc[p] = "check"
    /\ BothFound(summary[p])
    /\ result' \in {[result EXCEPT ![p] = t] : t \in SummaryTriples(summary[p])}
    /\ pdf' = [pdf EXCEPT ![p] = WithExit(@)]
    /\ pc' = [pc EXCEPT ![p] = "returned"]
    /\ UNCHANGED <<webvars, doc, page_no, all_text, all_rows, summary, idx, row_no, acc,
                   raised, stages, added, val_str, parsed>>

\* A mutant of HeaderRegion: every row of the document is scanned.
HeaderRegionAll(rows) == Len(rows)

\* the rows "for row in all_rows[:20]" visits
HeaderRegion(rows) == IF Len(rows) <= HeaderRows THEN Len(rows) ELSE HeaderRows

\* lines 44-52: the table heuristics start
BeginTable(p) ==
    /\ pc[p] = "check"
    /\ ~ BothFound(summary[p])
    /\ acc' = [acc EXCEPT ![acc_of(p)] = NoAcc]
    /\ idx' = [idx EXCEPT ![p] = NoColumns]
    /\ row_no' = [row_no EXCEPT ![p] = 1]
    /\ stages' = [stages EXCEPT ![p] = @ \cup {"table"}]
    /\ pc' = [pc EXCEPT ![p] = IF all_rows[p] = <<>> THEN "combine" ELSE "columns"]
    /\ UNCHANGED <<webvars, doc, pdf, page_no, all_text, all_rows, summary, result, raised,
                   added, val_str, parsed>>

\* lines 55-68: one iteration of "for row in all_rows[:20]"
IdentifyColumns(p) ==
    /\ pc[p] = "columns"
    /\ idx' = [idx EXCEPT ![p] = IdentifyRow(@, all_rows[p][row_no[p]])]
    /\ IF row_no[p] < HeaderRegion(all_rows[p])
       THEN /\ row_no' = [row_no EXCEPT ![p] = @ + 1]
            /\ pc' = pc
       ELSE /\ row_no' = [row_no EXCEPT ![p] = 1]
            /\ pc' = [pc EXCEPT ![p] = "rows"]
    /\ UNCHANGED <<webvars, doc, pdf, page_no, all_text, all_rows, summary, acc, result,
                   raised, stages, added, val_str, parsed>>

\* the history of one row's additions: each with the row's number (from 1)
Logged(ads, r) == [k \in DOMAIN ads |-> [row |-> r, to |-> ads[k].to, col |-> ads[k].col,
                                        v |-> ads[k].v, via |-> ads[k].via]]

\* lines 73-106: one iteration of "for row in all_rows"
ProcessRows(p) ==
    /\ pc[p] = "rows"
    /\ LET ads == Additions(idx[p], all_rows[p][row_no[p]])
       IN  /\ acc' = [acc EXCEPT ![acc_of(p)] = Apply(@, ads)]
           /\ added' = [added EXCEPT ![p] = @ \o Logged(ads, row_no[p])]
    /\ row_no' = [row_no EXCEPT ![p] = @ + 1]
    /\ pc' = [pc EXCEPT ![p] = IF row_no[p] = Len(all_rows[p]) THEN "combine" ELSE "rows"]
    /\ UNCHANGED <<webvars, doc, pdf, page_no, all_text, all_rows, summary, idx, result,
                   raised, stages, val_str, parsed>>

\* lines 108-112: the return of the table path; leaving the with block closes the file
Return(p) ==
    /\ pc[p] = "combine"
    /\ result' \in {[result EXCEPT ![p] = t] :
                      t \in TableTriples(summary[p], acc[acc_of(p)])}
    /\ pdf' = [pdf EXCEPT ![p] = WithExit(@)]
    /\ pc' = [pc EXCEPT ![p] = "returned"]
    /\ UNCHANGED <<webvars, doc, page_no, all_text, all_rows, summary, idx, row_no, acc,
                   raised, stages, added, val_str, parsed>>

\* An exception inside the with block (pdfplumber failing on a page, or any
\* fault of a later stage): the with block closes the file and lines 114-116
\* return the zero triple.
Fault(p) ==
    /\ pc[p] \in {"pages", "summary", "check", "columns", "rows", "combine"}
    /\ raised' = [raised EXCEPT ![p] = TRUE]
    /\ result' = [result EXCEPT ![p] = ZeroTriple]
    /\ pdf' = [pdf EXCEPT ![p] = WithExit(@)]
    /\ pc' = [pc EXCEPT ![p] = "returned"]
    /\ all_text' = [all_text EXCEPT ![p] = <<>>]
    /\ all_rows' = [all_rows EXCEPT ![p] = <<>>]
    /\ summary' = [summary EXCEPT ![p] = NoSummary]
    /\ idx' = [idx EXCEPT ![p] = NoColumns]
    /\ page_no' = [page_no EXCEPT ![p] = 0]
    /\ row_no' = [row_no EXCEPT ![p] = 0]
    /\ acc' = [acc EXCEPT ![acc_of(p)] = NoAcc]
    /\ stages' = [stages EXCEPT ![p] = {}]
    /\ added' = [added EXCEPT ![p] = <<>>]
    /\ UNCHANGED <<webvars, doc, val_str, parsed>>

Next ==
    \/ \E p \in Procs : Open(p)
    \/ \E p \in Procs : OpenFails(p)
    \/ \E p \in Procs : ExtractPage(p)
    \/ \E p \in Procs : SummaryExtraction(p)
    \/ \E p \in Procs : EarlyReturn(p)
    \/ \E p \in Procs : BeginTable(p)
    \/ \E p \in Procs : IdentifyColumns(p)
    \/ \E p \in Procs : ProcessRows(p)
    \/ \E p \in Procs : Return(p)
    \/ \E p \in Procs : Fault(p)

Spec == Init /\ [][Next]_vars

\* two calls at once, from two threads
SpecShared == InitShared /\ [][Next]_vars

\* one call of _parse_val
ParseCall ==
    /\ parsed = NotCalled
    /\ parsed' = Some(_parse_val(val_str))
    /\ UNCHANGED <<webvars, doc, pc, pdf, page_no, all_text, all_rows, summary, idx, row_no,
                   acc, result, raised, stages, added, val_str>>

NextParse == ParseCall

SpecParse == InitParse /\ [][NextParse]_vars

(***************************************************************************)
(* The call as a function of its document: what an invocation run alone    *)
(* computes, stage by stage.                                               *)
(***************************************************************************)

RECURSIVE TextOf(_)
TextOf(pages) ==
    IF pages = <<>> THEN <<>>
    ELSE PageText(Head(pages)) \o <<"\n">> \o TextOf(Tail(pages))

RECURSIVE RowsOf(_)
RowsOf(pages) ==
    IF pages = <<>> THEN <<>> ELSE PageRows(Head(pages).tables) \o RowsOf(Tail(pages))

SummaryOf(text) ==
    [summary_credit  |-> _find_by_regex(CreditLabels, text),
     summary_debit   |-> _find_by_regex(DebitLabels, text),
     summary_balance |-> _find_by_regex(BalanceLabels, text)]

\* the columns identified after the first n rows
RECURSIVE ColumnsOf(_, _)
ColumnsOf(rows, n) ==
    IF n = 0 THEN NoColumns ELSE IdentifyRow(ColumnsOf(rows, n - 1), rows[n])

\* the accumulators after the first n rows
RECURSIVE TableOf(_, _, _)
TableOf(rows, ix, n) ==
    IF n = 0 THEN NoAcc ELSE ProcessRow(TableOf(rows, ix, n - 1), ix, rows[n])

\* what the table heuristics compute from the rows
TableEngine(rows) == TableOf(rows, ColumnsOf(rows, HeaderRegion(rows)), Len(rows))

\* the triples a call on d, run alone and without a fault after the open, can return
Metrics(d) ==
    IF ~ d.readable THEN {ZeroTriple}
    ELSE LET sm == SummaryOf(TextOf(d.pages))
         IN  IF BothFound(sm) THEN SummaryTriples(sm)
             ELSE TableTriples(sm, TableEngine(RowsOf(d.pages)))


(***************************************************************************)
(* The route POST /evaluate (src/routes/evaluation.py, evaluate_applicant). *)
(* Each request has its own locals; the folder temp_uploads is shared by   *)
(* all requests.  Amounts and ages are counted in hundredths.              *)
(***************************************************************************)

\* a form field the request does not carry
Absent == <<"<absent>">>

\* what float() gives: the number n (in hundredths), float('nan'), or the
\* exception raised for a text that is no number and for None
Num(n) == [kind |-> "number", v |-> n]

NaN == [kind |-> "nan", v |-> 0]

ValueError == [kind |-> "ValueError", v |-> 0]

TypeError == [kind |-> "TypeError", v |-> 0]

\* the number a sequence of digits (as numbers) writes
RECURSIVE Number(_)
Number(ds) ==
    IF ds = <<>> THEN 0 ELSE 10 * Number(SubSeq(ds, 1, Len(ds) - 1)) + ds[Len(ds)]

\* a decimal with at most two fraction digits, in hundredths
Hundredths(v) ==
    LET n == Number(v.ip \o PadRight(v.fp, 2)) IN IF v.neg THEN 0 - n ELSE n

\* float(s) for the texts a form sends: an optional sign, digits with at
\* most one point, or "nan"; any other text raises ValueError and None
\* raises TypeError.  The number is given in hundredths.
PyFloat(s) ==
    IF s = Absent THEN TypeError
    ELSE IF Lower(s) = <<"n", "a", "n">> THEN NaN
    ELSE LET neg  == s # <<>> /\ s[1] = "-"
             body == IF s # <<>> /\ s[1] \in {"-", "+"} THEN Tail(s) ELSE s
         IN  IF /\ \A k \in DOMAIN body : body[k] \in DigitSet \cup {"."}
                /\ \E k \in DOMAIN body : body[k] \in DigitSet
                /\ Count(".", body) <= 1
             THEN Num(Hundredths([Float(body) EXCEPT !.neg = neg /\ Float(body) # Zero]))
             ELSE ValueError

\* request.form.get(name, 0) followed by float(): lines 23-24
FormFloat(s) == IF s = Absent THEN Num(0) ELSE PyFloat(s)

\* werkzeug's secure_filename (line 35): path separators become spaces,
\* runs of white space become one "_", every character outside
\* [A-Za-z0-9_.-] is dropped, and leading and trailing "." and "_" are
\* stripped
secure_filename(name) ==
    LET sp(c) == c \in SpaceSet \cup {"/"}
        word(s, k) == ~ sp(s[k]) /\ (k = 1 \/ sp(s[k - 1]))
        first(s) == {k \in DOMAIN s : ~ sp(s[k])}
        joined == [k \in DOMAIN name |->
                     IF sp(name[k]) THEN <<>>
                     ELSE IF word(name, k) /\ \E i \in first(name) : i < k
                          THEN <<"_", name[k]>> ELSE <<name[k]>>]
        flat[k \in 0..Len(name)] == IF k = 0 THEN <<>> ELSE flat[k - 1] \o joined[k]
        ok(c) == c \in LetterSet \cup DigitSet \cup {"_", ".", "-"}
        kept == SelectSeq(flat[Len(name)], ok)
        edge(c) == c \in {".", "_"}
        inner == {k \in DOMAIN kept : ~ edge(kept[k])}
    IN  IF inner = {} THEN <<>>
        ELSE SubSeq(kept, CHOOSE a \in inner : \A b \in inner : a <= b,
                          CHOOSE a \in inner : \A b \in inner : b <= a)

\* line 34: file.filename.lower().endswith('.pdf')
IsPdfName(name) ==
    Len(name) >= 4 /\ Lower(SubSeq(name, Len(name) - 3, Len(name))) = <<".", "p", "d", "f">>

\* line 49, in tenths
margin == 2

\* a <= b for two floats that are products of decimals: where the exact
\* values are equal the binary products can lie on either side
FloatLe(a, b, tie) == a < b \/ (a = b /\ tie)

\* lines 48-57, for total_credit and self_declared_income in hundredths
income_match(total_credit, self_declared_income, ties) ==
    /\ self_declared_income # NaN
    /\ total_credit > 0
    /\ \/ /\ FloatLe((10 - margin) * total_credit, 10 * self_declared_income.v, ties[1])
          /\ FloatLe(10 * self_declared_income.v, (10 + margin) * total_credit, ties[2])
       \/ self_declared_income.v <= total_credit

\* lines 78-84, the age in hundredths of a year
multiplier(age) ==
    IF age # NaN /\ age.v < 200 THEN 2 ELSE IF age # NaN /\ age.v < 500 THEN 3 ELSE 5

\* an answer of the route that is no evaluation
ErrorResponse(code, error) == [code |-> code, error |-> error]

\* lines 45-112: the body of the answer, or the exception float(business_age) raises
Evaluation(form, metrics, ties) ==
    LET total_credit == Hundredths(metrics[1])
        avg_balance == Hundredths(metrics[3])
        self_declared_income == FormFloat(form.monthlyIncome)
        matched == income_match(total_credit, self_declared_income, ties)
        status == IF matched THEN "Verified" ELSE "Needs Review"
        age == PyFloat(form.businessAge)
        answer_of(eligible, amount) ==
            [code |-> 200, totalCredit |-> total_credit,
             totalDebit |-> Hundredths(metrics[2]),
             averageMonthlyBalance |-> avg_balance, incomeMatch |-> matched,
             status |-> status, isEligible |-> eligible, suggestedAmount |-> amount]
    IN  IF status # "Verified" THEN answer_of(FALSE, 0)
        ELSE IF age \in {TypeError, ValueError} THEN ErrorResponse(500, age.kind)
        ELSE IF age # NaN /\ age.v < 100 THEN answer_of(FALSE, 0)
        ELSE IF avg_balance <= 0 THEN answer_of(FALSE, 0)
        ELSE answer_of(TRUE, (IF avg_balance < self_declared_income.v
                              THEN avg_balance ELSE self_declared_income.v)
                             * multiplier(age))

\* the statements the requests upload
UploadA == Document(<<<<"T", "o", "t", "a", "l", " ", "C", "r", "e", "d", "i", "t", ":", " ", "1",
        ".", "5", "0", "\n", "T", "o", "t", "a", "l", " ", "D", "e", "b", "i", "t", ":", " ", "0",
        ".", "2", "0">>>>, ExampleTable)

UploadB == Document(<<NoneText>>, ExampleTable)

Uploads == {Unreadable, UploadA, UploadB, Document(<<NoneText>>, <<HeaderRow>>)}

\* the forms of the single request
Forms ==
    [monthlyIncome : {Absent, <<"a", "b", "c">>, <<"n", "a", "n">>, <<"-", "5">>, <<"0">>, <<"1",
            ".", "2">>, <<"1", ".", "5">>, <<"1", ".", "8">>,
                      <<"1", ".", "8", "1">>, <<"1", "5", "0", "0">>, <<"1", "7", "9", "9", ".",
                              "9", "9">>, <<"1", "8", "0", "0", ".", "0", "1">>, <<"2", "0", "0",
                              "0", "0", "0">>},
     rentAmount : {Absent},
     businessAge : {Absent, <<"a", "b", "c">>, <<"n", "a", "n">>, <<"0", ".", "5">>, <<"1">>,
             <<"1", ".", "5">>, <<"2">>, <<"4", ".", "9">>, <<"5">>},
     bankStatement : {Some(f) : f \in [filename : {<<"A", " ", "B", ".", "P", "D", "F">>},
             content : Uploads]}]
    \cup
    [monthlyIncome : {<<"1", "5", "0", "0">>}, rentAmount : {Absent, <<"a", "b", "c">>, <<"1", "0",
            ".", "5">>},
     businessAge : {<<"3">>},
     bankStatement : {None} \cup {Some(f) : f \in [filename : {<<>>, <<"x", ".", "t", "x", "t">>,
             <<".", ".", "/", "x", ".", "p", "d", "f">>},
                                                      content : {UploadB}]}]

\* the forms of the requests that run at the same time
SharedForms ==
    [monthlyIncome : {<<"0">>, <<"1", "5", "0", "0">>}, rentAmount : {Absent},
     businessAge : {Absent, <<"3">>},
     bankStatement : {Some(f) : f \in [filename : {<<"a", " ", "b", ".", "p", "d", "f">>, <<"a",
             "_", "b", ".", "p", "d", "f">>, <<"c", ".", "p", "d", "f">>},
                                        content : {Unreadable, UploadB}]}]

Requests == DOMAIN request

\* the request has no answer yet
NoResponse == [code |-> 0]

\* the file part of the form, for a form that has one
FilePart(r) == request[r].form.bankStatement[1]

\* lines 14-19: the requests have arrived, nothing else has happened
InitRequests(reqs, forms) ==
    /\ InitCalls({}, {})
    /\ val_str = <<>>
    /\ parsed = NotCalled
    /\ request \in [reqs -> [form : forms, at : {"form"}, file_path : {<<>>},
                              metrics : {<<>>}, response : {NoResponse},
                              parsed_from : {None}, removed : {0}]]
    /\ temp_uploads = <<>>
    /\ df_original = <<>>
    /\ df_processed = <<>>
    /\ answer = <<>>
    /\ client_row = <<>>
    /\ client_score = <<>>

\* the request ends with the answer
Respond(r, response) ==
    request' = [request EXCEPT ![r].at = "done", ![r].response = response]

\* lines 20-36: the form is read and the file part is checked
ReadForm(r) ==
    /\ request[r].at = "form"
    /\ LET form == request[r].form
       IN  IF FormFloat(form.monthlyIncome) = ValueError
               \/ FormFloat(form.rentAmount) = ValueError
           THEN Respond(r, ErrorResponse(500, "ValueError"))
           ELSE IF form.bankStatement = None
           THEN Respond(r, ErrorResponse(400, "No file uploaded"))
           ELSE IF FilePart(r).filename = <<>>
           THEN Respond(r, ErrorResponse(400, "Empty filename"))
           ELSE IF ~ IsPdfName(FilePart(r).filename)
           THEN Respond(r, ErrorResponse(400, "Invalid file format. Only PDF allowed."))
           ELSE request' = [request EXCEPT ![r].at = "save",
                               ![r].file_path = secure_filename(FilePart(r).filename)]
    /\ UNCHANGED <<pdfvars, temp_uploads, df_original, df_processed, answer, client_row,
                   client_score>>

\* the folder with the file "name" holding "content"
Written(folder, name, content) ==
    [n \in DOMAIN folder \cup {name} |-> IF n = name THEN content ELSE folder[n]]

\* the folder without the file "name"
Removed(folder, name) == [n \in DOMAIN folder \ {name} |-> folder[n]]

\* lines 36-37: file.save(file_path); the path is UPLOAD_FOLDER and the
\* sanitized name, so the name stands for the path
Save(r) ==
    /\ request[r].at = "save"
    /\ temp_uploads' = Written(temp_uploads, request[r].file_path, FilePart(r).content)
    /\ request' = [request EXCEPT ![r].at = "parse"]
    /\ UNCHANGED <<pdfvars, df_original, df_processed, answer, client_row, client_score>>

\* line 40: extract_financial_metrics(file_path) reads what the path holds
\* now; a file that is not there reads like one that cannot be opened
Parse(r) ==
    /\ request[r].at = "parse"
    /\ \E m \in Metrics(IF request[r].file_path \in DOMAIN temp_uploads
                         THEN temp_uploads[request[r].file_path] ELSE Unreadable) :
          request' = [request EXCEPT ![r].at = "remove", ![r].metrics = m,
                         ![r].parsed_from =
                             IF request[r].file_path \in DOMAIN temp_uploads
                             THEN Some(temp_uploads[request[r].file_path]) ELSE None]
    /\ UNCHANGED <<pdfvars, temp_uploads, df_original, df_processed, answer, client_row,
                   client_score>>

\* line 43: os.remove(file_path); FileNotFoundError goes to line 116
Remove(r) ==
    /\ request[r].at = "remove"
    /\ IF request[r].file_path \in DOMAIN temp_uploads
       THEN /\ temp_uploads' = Removed(temp_uploads, request[r].file_path)
            /\ request' = [request EXCEPT ![r].at = "evaluate", ![r].removed = @ + 1]
       ELSE /\ Respond(r, ErrorResponse(500, "FileNotFoundError"))
            /\ UNCHANGED temp_uploads
    /\ UNCHANGED <<pdfvars, df_original, df_processed, answer, client_row, client_score>>

\* lines 45-117
Evaluate(r) ==
    /\ request[r].at = "evaluate"
    /\ \E ties \in [1..2 -> BOOLEAN] :
          Respond(r, Evaluation(request[r].form, request[r].metrics, ties))
    /\ UNCHANGED <<pdfvars, temp_uploads, df_original, df_processed, answer, client_row,
                   client_score>>

NextEval ==
    \/ \E r \in Requests : ReadForm(r)
    \/ \E r \in Requests : Save(r)
    \/ \E r \in Requests : Parse(r)
    \/ \E r \in Requests : Remove(r)
    \/ \E r \in Requests : Evaluate(r)

\* one request
SpecEval == InitRequests({1}, Forms) /\ [][NextEval]_vars

\* two requests at once, from two threads
SpecEvalShared == InitRequests({1, 2}, SharedForms) /\ [][NextEval]_vars

(***************************************************************************)
(* The DataProcessor (src/services/data_processor.py) and its one global   *)
(* instance data_processor (line 326), read by the routes of               *)
(* src/routes/data.py.  Cell values are NaN (also None), Txt, Num(n) with  *)
(* n in hundredths, and the infinities.                                    *)
(***************************************************************************)

\* a text that is no number
Txt == [kind |-> "text", v |-> 0]

\* float('inf') and float('-inf')
Inf == [kind |-> "inf", v |-> 1]

NegInf == [kind |-> "inf", v |-> -1]

\* the row has no such key
Missing == [kind |-> "missing", v |-> 0]

\* int(float('inf')) raises OverflowError
OverflowError == [kind |-> "OverflowError", v |-> 0]

\* row.get(key, 0)
Get(row, key) == IF row[key] = Missing THEN Num(0) ELSE row[key]

\* int(x) of a number: the fraction is cut off, towards zero
Trunc(n) == IF n >= 0 THEN (n \div 100) * 100 ELSE 0 - ((0 - n) \div 100) * 100

\* lines 135-138 and 155-158: int(x) if pd.notna(x) else 0, with ValueError
\* and TypeError caught; OverflowError is not caught
IntOrZero(x) ==
    IF x.kind \in {"nan", "text"} THEN Num(0)
    ELSE IF x.kind = "inf" THEN OverflowError
    ELSE Num(Trunc(x.v))

\* lines 143-146: float(x) if pd.notna(x) else 0
FloatOrZero(x) == IF x.kind \in {"nan", "text"} THEN Num(0) ELSE x

\* x >= n for a float x and a number n in hundredths
AtLeast(x, n) == IF x.kind = "inf" THEN x.v > 0 ELSE x.v >= n

\* lines 126-162; the score is in hundredths
_calculate_client_score(row) ==
    LET overdue == IntOrZero(Get(row, "OverdueCollectionCount"))
        repayment_rate == FloatOrZero(Get(row, "repayment_rate"))
        cycle == IntOrZero(Get(row, "cycle"))
        reward == IF AtLeast(repayment_rate, 100) THEN 2000
                  ELSE IF AtLeast(repayment_rate, 80) THEN 1000 ELSE 0
        score == 10000 - 10 * overdue.v + reward + 5 * cycle.v
    IN  IF OverflowError \in {overdue, cycle} THEN OverflowError
        ELSE Num(Max(0, IF score < 10000 THEN score ELSE 10000))

\* the rows the score is computed for
ScoreCells ==
    {Missing, NaN, Txt, Inf, NegInf, Num(-270), Num(0), Num(80), Num(100), Num(270),
     Num(5000)}

ScoreRows == [{"OverdueCollectionCount", "repayment_rate", "cycle"} -> ScoreCells]

\* no score was computed yet
NotScored == [kind |-> "none", v |-> 0]

\* no request, no upload, no data: the parts of the state that a
\* specification about another part leaves alone
Idle ==
    /\ InitCalls({}, {})
    /\ val_str = <<>>
    /\ parsed = NotCalled
    /\ request = <<>>
    /\ temp_uploads = <<>>

InitScore ==
    /\ Idle
    /\ df_original = None
    /\ df_processed = None
    /\ answer = <<>>
    /\ client_row \in ScoreRows
    /\ client_score = NotScored

\* one call of _calculate_client_score
Score ==
    /\ client_score = NotScored
    /\ client_score' = _calculate_client_score(client_row)
    /\ UNCHANGED <<pdfvars, request, temp_uploads, df_original, df_processed, answer,
                   client_row>>

SpecScore == InitScore /\ [][Score]_vars

\* lines 99-102: pd.to_numeric(errors='coerce').fillna(0)
to_numeric(x) == IF x.kind \in {"nan", "text"} THEN Num(0) ELSE x

\* lines 74-124: the processed rows, or the exception that ends the call.
\* For the amounts of DataFiles the quotient of line 116 is exact.
preprocess_data(rows) ==
    LET numeric(i) == [c \in DOMAIN rows[i] |-> to_numeric(rows[i][c])]
        rate(i) == IF numeric(i).loanAmount.v > 0
                   THEN Num((100 * numeric(i).totalPayment.v * 100)
                                \div numeric(i).loanAmount.v)
                   ELSE Num(0)
        scored(i) == [c \in DOMAIN rows[i] \cup {"repayment_rate"} |->
                         IF c = "repayment_rate" THEN rate(i) ELSE numeric(i)[c]]
        data == [i \in DOMAIN rows |->
                    scored(i) @@
                    ("client_performance_score" :> _calculate_client_score(scored(i)))]
    IN  IF \E i \in DOMAIN rows : data[i].client_performance_score = OverflowError
        THEN [raised |-> TRUE, data |-> <<>>]
        ELSE [raised |-> FALSE, data |-> data]

\* s.endswith(t)
EndsWith(s, t) == Len(s) >= Len(t) /\ SubSeq(s, Len(s) - Len(t) + 1, Len(s)) = t

\* a DataFrame, with the file it was read from
Frame(file, rows) == Some([file |-> file.name, rows |-> rows])

\* A mutant of load_data: a failed load forgets the processed data.
load_data_reset(self, file) ==
    IF /\ \/ EndsWith(file.name, <<".", "c", "s", "v">>)
          \/ EndsWith(file.name, <<".", "x", "l", "s", "x">>)
          \/ EndsWith(file.name, <<".", "x", "l", "s">>)
       /\ file.readable
       /\ ~ preprocess_data(file.rows).raised
    THEN [df_original |-> Frame(file, file.rows),
          df_processed |-> Frame(file, preprocess_data(file.rows).data), returned |-> TRUE]
    ELSE [df_original |-> self.df_original, df_processed |-> None, returned |-> FALSE]

\* lines 49-72: the fields of self after the call, and the success flag
load_data(self, file) ==
    IF ~ \/ EndsWith(file.name, <<".", "c", "s", "v">>)
         \/ EndsWith(file.name, <<".", "x", "l", "s", "x">>)
         \/ EndsWith(file.name, <<".", "x", "l", "s">>)
    THEN [df_original |-> self.df_original, df_processed |-> self.df_processed,
          returned |-> FALSE]
    ELSE IF ~ file.readable
    THEN [df_original |-> self.df_original, df_processed |-> self.df_processed,
          returned |-> FALSE]
    ELSE IF preprocess_data(file.rows).raised
    THEN [df_original |-> Frame(file, file.rows), df_processed |-> self.df_processed,
          returned |-> FALSE]
    ELSE [df_original |-> Frame(file, file.rows),
          df_processed |-> Frame(file, preprocess_data(file.rows).data), returned |-> TRUE]

\* the files that are loaded
DataRows ==
    [OverdueCollectionCount : {Txt, Num(200), Inf}, cycle : {NaN, Num(100)},
     loanAmount : {Num(0), Num(10000)}, totalPayment : {Num(5000)}]

DataFiles ==
    [name : {<<"a", ".", "c", "s", "v">>, <<"b", ".", "x", "l", "s", "x">>}, readable : BOOLEAN,
            rows : {<<r>> : r \in DataRows}]
    \cup [name : {<<"c", ".", "t", "x", "t">>, <<"d", ".", "X", "L", "S">>}, readable : {TRUE},
          rows : {<<r>> : r \in {q \in DataRows : q.OverdueCollectionCount = Num(200)}}]

\* the values a query returns: None, a list, a dict
PyNone == [kind |-> "None"]

PyList(items) == [kind |-> "list", items |-> items]

PyDict(items) == [kind |-> "dict", items |-> items]

Queries ==
    {"get_basic_stats", "get_all_clients", "get_all_groups", "find_client", "find_group",
     "get_group_members"}

\* lines 166-167, 184-185, 213-214, 248-249, 266-267, 299-300
EmptyValue(query) ==
    IF query \in {"get_basic_stats", "find_client", "find_group"} THEN PyNone
    ELSE PyList(<<>>)

\* lines 164-322: what the query returns; "found" says whether the name
\* asked for is in the data
QueryValue(self, query, found) ==
    IF self.df_processed = None THEN EmptyValue(query)
    ELSE LET rows == self.df_processed[1].rows
         IN  IF query = "get_basic_stats" THEN PyDict(<<Len(rows)>>)
             ELSE IF query \in {"get_all_clients", "get_all_groups"} THEN PyList(rows)
             ELSE IF ~ found THEN EmptyValue(query)
             ELSE IF query = "get_group_members" THEN PyList(rows)
             ELSE PyDict(<<rows[1]>>)

\* the instance data_processor
Self == [df_original |-> df_original, df_processed |-> df_processed]

InitData ==
    /\ Idle
    /\ df_original = None
    /\ df_processed = None
    /\ answer = [call |-> "__init__", returned |-> PyNone]
    /\ client_row = <<>>
    /\ client_score = <<>>

\* data_processor.load_data(filepath), called by POST /upload (data.py line 58)
LoadData(file) ==
    /\ df_original' = load_data(Self, file).df_original
    /\ df_processed' = load_data(Self, file).df_processed
    /\ answer' = [call |-> "load_data",
                  returned |-> [kind |-> "bool", ok |-> load_data(Self, file).returned]]
    /\ UNCHANGED <<pdfvars, request, temp_uploads, client_row, client_score>>

\* a query of the processor, called by the routes
Query(query) ==
    /\ \E found \in BOOLEAN :
          answer' = [call |-> query, returned |-> QueryValue(Self, query, found)]
    /\ UNCHANGED <<pdfvars, request, temp_uploads, df_original, df_processed, client_row,
                   client_score>>

\* data.py lines 83-108: GET /stats
GetStats ==
    /\ answer' = [call |-> "GET /stats",
                  returned |->
                      IF QueryValue(Self, "get_basic_stats", TRUE) = PyNone
                      THEN [kind |-> "response", code |-> 400,
                            error |-> "No data loaded. Please upload a CSV file first."]
                      ELSE [kind |-> "response", code |-> 200, error |-> ""]]
    /\ UNCHANGED <<pdfvars, request, temp_uploads, df_original, df_processed, client_row,
                   client_score>>

NextData ==
    \/ \E file \in DataFiles : LoadData(file)
    \/ \E query \in Queries : Query(query)
    \/ GetStats

SpecData == InitData /\ [][NextData]_vars

(***************************************************************************)
(* The properties of extract_financial_metrics and _parse_val              *)
(***************************************************************************)

\* the non-negative decimal ip.fp
Dec(ip, fp) == [neg |-> FALSE, ip |-> ip, fp |-> fp]

\* invocation p has returned a triple computed without a fault
Completed(p) == pc[p] = "returned" /\ ~ raised[p]

\* the sum of the values the log says were added to the accumulator "to"
Total(log, to) ==
    LET into(a) == a.to = to
        sel == SelectSeq(log, into)
    IN  Sum([k \in DOMAIN sel |-> sel[k].v])

\* row number r of invocation p made no addition
Silent(p, r) == \A k \in DOMAIN added[p] : added[p][k].row # r

\* C1: extract_financial_metrics never raises: every call that has ended
\* holds a triple, a call on an unreadable document is a failure, and on a
\* failure (at the open or inside any later stage) the triple is exactly
\* (0.0, 0.0, 0.0).
NeverRaises ==
    \A p \in Procs : pc[p] = "returned" =>
        /\ Len(result[p]) = 3
        /\ ~ doc[p].readable => raised[p]
        /\ raised[p] => result[p] = <<Zero, Zero, Zero>>

\* a fault after the document opened, caught and turned into the zero triple
FaultReturnsZeros ==
    \E p \in Procs : /\ pc[p] = "returned" /\ raised[p] /\ doc[p].readable
                     /\ pdf[p] = "closed" /\ result[p] = <<Zero, Zero, Zero>>

\* C2: for credit and for debit independently, the returned value is the
\* (rounded) summary value of the family when the page text holds a match
\* for it, and the (rounded) table accumulator of the family otherwise.
SummaryPrecedence ==
    \A p \in Procs : Completed(p) =>
        LET family(labels, found, got, to) ==
                IF MatchStarts(labels, all_text[p]) # {}
                THEN found # None /\ got \in Round(found[1])
                ELSE found = None /\ got \in Round(Total(added[p], to))
        IN  /\ family(CreditLabels, summary[p].summary_credit, result[p][1],
                      "total_credit")
            /\ family(DebitLabels, summary[p].summary_debit, result[p][2],
                      "total_debit")

\* the summary gives the credit and the table the debit, the table holding
\* credits of its own
SummaryCreditTableDebit ==
    \E p \in Procs :
        /\ Completed(p)
        /\ summary[p].summary_credit # None /\ summary[p].summary_debit = None
        /\ Truthy(Total(added[p], "total_credit"))
        /\ Truthy(Total(added[p], "total_debit"))
        /\ result[p][1] \in Round(summary[p].summary_credit[1])
        /\ result[p][2] \in Round(Total(added[p], "total_debit"))

\* C3: the returned average_balance is the mean of the table balance list
\* whenever that list is non-empty, else the summary balance if found, else
\* 0.0, also when both summary credit and summary debit were found: the
\* example document gives (5000000.00, 3200000.00, 150000.00).
BalancePrefersTable ==
    \A p \in Procs : Completed(p) =>
        LET balances == TableEngine(all_rows[p]).balances
        IN  /\ result[p][3] \in
                  (IF balances # <<>> THEN RoundDiv(Sum(balances), Len(balances))
                   ELSE Round(OrZero(summary[p].summary_balance)))
            /\ doc[p] = ExampleDocument =>
                  result[p] = <<Dec(<<5, 0, 0, 0, 0, 0, 0>>, <<>>),
                                Dec(<<3, 2, 0, 0, 0, 0, 0>>, <<>>),
                                Dec(<<1, 5, 0, 0, 0, 0>>, <<>>)>>

\* the date pattern, restated: a match of \d{1,4}[-/.]\d{1,2}[-/.]\d{2,4}
\* holds a digit, a separator, one or two digits, a separator and two digits
DateLike(s) ==
    LET dig(k) == k \in DOMAIN s /\ s[k] \in DigitSet
        sep(k) == k \in DOMAIN s /\ s[k] \in {"-", "/", "."}
    IN  \E i \in DOMAIN s :
            /\ dig(i) /\ sep(i + 1) /\ dig(i + 2)
            /\ \/ sep(i + 3) /\ dig(i + 4) /\ dig(i + 5)
               \/ dig(i + 3) /\ sep(i + 4) /\ dig(i + 5) /\ dig(i + 6)

\* the value of cell number j (from 1) of the row, 0.0 when the row is shorter
CellValue(row, j) == IF j <= Len(row) THEN _parse_val(row[j]) ELSE Zero

\* the row holds a NumericCandidate: a positive cell of at most 11 digits
HoldsCandidate(row) ==
    \E j \in DOMAIN row : Positive(_parse_val(row[j])) /\ DigitCount(row[j]) <= 11

\* the triple the table-fallback property gives for the rows rs: the sums of
\* the third and fourth columns and the mean of the non-zero values of the fifth
ColumnTriples(rs) ==
    LET col(j) == [k \in DOMAIN rs |-> CellValue(rs[k], j)]
        bal == SelectSeq(col(5), Truthy)
    IN  {<<c, d, b>> : c \in Round(Sum(col(3))), d \in Round(Sum(col(4))),
                       b \in IF bal = <<>> THEN {Zero}
                             ELSE RoundDiv(Sum(bal), Len(bal))}

\* no summary family matched, and the table starts with the header row
\* [Date, Description, Credit, Debit, Balance]
FallbackCase(p) ==
    /\ Completed(p)
    /\ summary[p] = NoSummary
    /\ all_rows[p] # <<>>
    /\ all_rows[p][1] = HeaderRow

\* C4 as stated: with no summary match and the header row [Date,
\* Description, Credit, Debit, Balance], the result is the sum of the Credit
\* column, the sum of the Debit column and the mean of the Balance column
\* over all date-bearing rows.
TableFallbackAllDatedRows ==
    \A p \in Procs : FallbackCase(p) =>
        LET dated(row) == DateLike(Join(row))
        IN  result[p] \in ColumnTriples(SelectSeq(all_rows[p], dated))

\* C4, amended: the same, for tables whose rows all have the five cells of
\* the header and in which no amount column or no type column is
\* identified, the sums and the mean being over the date-bearing rows that
\* hold at least one NumericCandidate.
TableFallback ==
    \A p \in Procs :
        /\ FallbackCase(p)
        /\ \A r \in DOMAIN all_rows[p] : Len(all_rows[p][r]) = Len(HeaderRow)
        /\ idx[p].amount_idx = -1 \/ idx[p].type_idx = -1
        =>
        LET counted(row) == DateLike(Join(row)) /\ HoldsCandidate(row)
        IN  result[p] \in ColumnTriples(SelectSeq(all_rows[p], counted))

\* a table under the header whose rows gave credits, debits and two balances
FallbackSums ==
    \E p \in Procs :
        /\ FallbackCase(p)
        /\ \A r \in DOMAIN all_rows[p] : Len(all_rows[p][r]) = Len(HeaderRow)
        /\ idx[p].amount_idx = -1 \/ idx[p].type_idx = -1
        /\ Positive(result[p][1]) /\ Positive(result[p][2])
        /\ Len(acc[p].balances) >= 2

\* the cell an addition of the log of invocation p was read from
CellOf(p, a) == all_rows[p][a.row][a.col + 1]

\* C5 as stated: a cell whose raw text holds 11 or more digits is never
\* added to total_credit, total_debit or the balance list, whatever the
\* column roles.
DigitGuardEveryCell ==
    \A p \in Procs : \A k \in DOMAIN added[p] :
        DigitCount(CellOf(p, added[p][k])) < 11

\* C5, amended: a cell whose raw text holds 12 or more digits is never a
\* NumericCandidate: it is never taken as the balance proxy, and a row
\* adds to an accumulator only if it holds a positive cell of at most 11
\* digits.
DigitGuard ==
    \A p \in Procs : \A k \in DOMAIN added[p] :
        /\ added[p][k].via = "proxy" => DigitCount(CellOf(p, added[p][k])) < 12
        /\ \E j \in DOMAIN all_rows[p][added[p][k].row] :
              LET cell == all_rows[p][added[p][k].row][j]
              IN  Positive(_parse_val(cell)) /\ DigitCount(cell) < 12

\* a date-bearing row whose only positive cell holds 12 digits was processed
\* and added nothing
LongNumberSkipped ==
    \E p \in Procs : \E r \in DOMAIN all_rows[p] :
        LET row == all_rows[p][r]
        IN  /\ Completed(p) /\ "table" \in stages[p]
            /\ DateLike(Join(row))
            /\ \E j \in DOMAIN row :
                  Positive(_parse_val(row[j])) /\ DigitCount(row[j]) >= 12
            /\ Silent(p, r)

\* C6: a row whose joined cell text holds no date-like substring leaves
\* total_credit, total_debit and the balance list as they were.
DateAnchoring ==
    [][\A p \in Procs :
          /\ pc[p] = "rows"
          /\ ~ raised'[p]
          /\ ~ DateLike(Join(all_rows[p][row_no[p]]))
          => acc'[p] = acc[p] /\ added'[p] = added[p]]_vars

\* a row without a date but with positive cells was processed and added nothing
TotalsRowSkipped ==
    \E p \in Procs :
        /\ pc[p] \in {"rows", "combine"}
        /\ row_no[p] > 1
        /\ LET row == all_rows[p][row_no[p] - 1]
           IN  /\ ~ DateLike(Join(row))
               /\ \E j \in DOMAIN row : Positive(_parse_val(row[j]))
               /\ Silent(p, row_no[p] - 1)
        /\ added[p] # <<>>

\* the characters of s that are decimal digits or '.'
DigitsAndDots(s) ==
    LET kept(c) == c \in DigitSet \cup {"."}
    IN  SelectSeq(s, kept)

\* the decimal value of a string of digits with at most one '.'
DecimalValue(s) ==
    LET dots == {i \in DOMAIN s : s[i] = "."}
        cut  == IF dots = {} THEN Len(s) + 1 ELSE CHOOSE i \in dots : TRUE
        digits(t) == [k \in DOMAIN t |-> DigitVal(t[k])]
    IN  Norm(FALSE, digits(SubSeq(s, 1, cut - 1)), digits(SubSeq(s, cut + 1, Len(s))))

\* the algorithm of the Value Normalizer, as the specification words it
Normalized(s) ==
    LET rest == DigitsAndDots(s)
        trimmed == IF rest # <<>> /\ rest[Len(rest)] = "."
                   THEN SubSeq(rest, 1, Len(rest) - 1) ELSE rest
    IN  IF Cardinality({i \in DOMAIN rest : rest[i] = "."}) > 1 THEN Zero
        ELSE IF trimmed = <<>> THEN Zero
        ELSE DecimalValue(trimmed)

\* C7: _parse_val is total; it drops every character that is not a digit or
\* '.', gives 0.0 when more than one '.' or nothing remains, trims one
\* trailing '.', and otherwise gives the decimal value of the rest; a sign
\* changes nothing; "12,345.67" gives 12345.67, "UGX 1,000" gives 1000.0,
\* "1.2.3" gives 0.0 and "" gives 0.0.
ParseValNormalizes ==
    parsed # NotCalled =>
        /\ parsed[1] = Normalized(val_str)
        /\ parsed[1] = _parse_val(<<"-">> \o val_str)
        /\ val_str = <<"1", "2", ",", "3", "4", "5", ".", "6", "7">> => parsed[1] = Dec(<<1, 2, 3,
                4, 5>>, <<6, 7>>)
        /\ val_str = <<"U", "G", "X", " ", "1", ",", "0", "0", "0">> => parsed[1] = Dec(<<1, 0, 0,
                0>>, <<>>)
        /\ val_str = <<"-", "5", "0", "0">> => parsed[1] = Dec(<<5, 0, 0>>, <<>>)
        /\ val_str = <<"5", "0", "0">> => parsed[1] = Dec(<<5, 0, 0>>, <<>>)
        /\ val_str = <<"1", ".", "2", ".", "3">> => parsed[1] = Zero
        /\ val_str = <<>> => parsed[1] = Zero

\* the call on "12,345.67" has returned 12345.67
ParsedGroupedDecimal ==
    /\ val_str = <<"1", "2", ",", "3", "4", "5", ".", "6", "7">>
    /\ parsed = Some(Dec(<<1, 2, 3, 4, 5>>, <<6, 7>>))

\* C8: every returned triple, on the early summary return, the table path
\* and the failure path alike, has all three components >= 0.
NonNegativeTriple ==
    \A p \in Procs : pc[p] = "returned" =>
        \A i \in 1..3 : ~ result[p][i].neg

\* a debit cell written with a minus sign was added, and the debit returned
\* is positive
SignedCellCounted ==
    \E p \in Procs : \E k \in DOMAIN added[p] :
        /\ Completed(p)
        /\ added[p][k].to = "total_debit"
        /\ CellOf(p, added[p][k])[1] = "-"
        /\ Positive(result[p][2])

\* C9: on every invocation in which the document is read successfully, both
\* the Summary Extractor and the Table Heuristics Engine run before the
\* result is produced.
BothStagesRun ==
    \A p \in Procs : Completed(p) /\ doc[p].readable =>
        stages[p] = {"summary", "table"}

\* C10: under any interleaving of concurrent invocations, each invocation
\* returns a triple it can return when run alone on its own document (the
\* zero triple if it faults).
Stateless ==
    \A p \in Procs : pc[p] = "returned" =>
        IF raised[p] THEN result[p] = <<Zero, Zero, Zero>>
        ELSE result[p] \in Metrics(doc[p])

\* two concurrent calls on different documents have both gone through the
\* table heuristics and returned different triples
BothCallsReturned ==
    /\ Procs = {1, 2}
    /\ \A p \in Procs : Completed(p) /\ "table" \in stages[p]
    /\ doc[1] # doc[2]
    /\ result[1] # result[2]
    /\ \A p \in Procs : Len(acc[p].balances) >= 1

(***************************************************************************)
(* The properties of the stages: the file, the summary extractor, column   *)
(* inference and row processing                                            *)
(***************************************************************************)

\* C11: whenever the call opened the document, the document is closed when
\* the call has returned, on every exit path: the early summary return, the
\* table return and an exception during extraction or processing; and a
\* call in progress holds the file open.
ClosedOnEveryExit ==
    \A p \in Procs :
        /\ pc[p] = "returned" => pdf[p] \in {"unopened", "closed"}
        /\ pc[p] = "returned" /\ doc[p].readable => pdf[p] = "closed"
        /\ pc[p] \notin {"call", "returned"} => pdf[p] = "open"

\* the table path returned with the file closed
TableReturnClosed ==
    \E p \in Procs : /\ Completed(p) /\ "table" \in stages[p]
                     /\ all_rows[p] # <<>> /\ pdf[p] = "closed"

\* the rows of invocation p that the row loop has gone through
Processed(p) ==
    IF raised[p] \/ "table" \notin stages[p] THEN {}
    ELSE IF pc[p] = "rows" THEN 1..(row_no[p] - 1)
    ELSE IF pc[p] \in {"combine", "returned"} THEN DOMAIN all_rows[p]
    ELSE {}

\* row number r of invocation p added the value v to the accumulator "to"
AddedTo(p, r, to, v) ==
    \E k \in DOMAIN added[p] :
        added[p][k].row = r /\ added[p][k].to = to /\ added[p][k].v = v

\* row number r of invocation p added nothing to the accumulator "to"
NothingTo(p, r, to) ==
    \A k \in DOMAIN added[p] : ~ (added[p][k].row = r /\ added[p][k].to = to)

\* the lower-cased cell of the column with index j (from 0)
LowerCell(row, j) == Lower(row[j + 1])

\* C12: in the type/amount mode a date-bearing row's amount is added to
\* total_credit if its type cell holds "received", "cash in" or "deposit",
\* to total_debit if it holds "payment", "sent", "cash out" or "withdraw",
\* and to neither otherwise.
TypeAmountClassification ==
    \A p \in Procs : \A r \in Processed(p) :
        LET row == all_rows[p][r]
            t == LowerCell(row, idx[p].type_idx)
            v == _parse_val(row[idx[p].amount_idx + 1])
            credit == \E k \in {<<"r", "e", "c", "e", "i", "v", "e", "d">>, <<"c", "a", "s", "h",
                    " ", "i", "n">>, <<"d", "e", "p", "o", "s", "i", "t">>} : Contains(k, t)
            debit == \E k \in {<<"p", "a", "y", "m", "e", "n", "t">>, <<"s", "e", "n", "t">>,
                    <<"c", "a", "s", "h", " ", "o", "u", "t">>, <<"w", "i", "t", "h", "d", "r",
                    "a", "w">>} :
                        Contains(k, t)
        IN  DateLike(Join(row)) /\ TypeAmountMode(idx[p], row) =>
                IF credit THEN AddedTo(p, r, "total_credit", v)
                               /\ NothingTo(p, r, "total_debit")
                ELSE IF debit THEN AddedTo(p, r, "total_debit", v)
                                   /\ NothingTo(p, r, "total_credit")
                ELSE NothingTo(p, r, "total_credit") /\ NothingTo(p, r, "total_debit")

\* the values row number r of invocation p appended to the balance list
Captured(p, r) ==
    {added[p][k].v : k \in {n \in DOMAIN added[p] :
                              added[p][n].row = r /\ added[p][n].to = "balances"}}

\* the value of the last NumericCandidate of a row that holds one
LastCandidate(row) ==
    LET C == {j \in DOMAIN row :
                Positive(_parse_val(row[j])) /\ DigitCount(row[j]) <= 11}
    IN  _parse_val(row[CHOOSE j \in C : \A k \in C : k <= j])

\* the balance-column value if it is greater than 0, else nothing
FromBalanceColumn(row, j) ==
    IF Positive(CellValue(row, j + 1)) THEN {CellValue(row, j + 1)} ELSE {}

\* C13 as stated: for a date-bearing row, if a balance column was
\* identified its parsed value is appended when greater than 0 and nothing
\* is appended otherwise; if none was identified and the row has a
\* NumericCandidate, the value of the last one is appended.
BalanceCaptureByColumn ==
    \A p \in Procs : \A r \in Processed(p) :
        LET row == all_rows[p][r]
        IN  DateLike(Join(row)) =>
                IF idx[p].balance_idx # -1
                THEN Captured(p, r) = FromBalanceColumn(row, idx[p].balance_idx)
                ELSE HoldsCandidate(row) => Captured(p, r) = {LastCandidate(row)}

\* C13, amended: a date-bearing row without a NumericCandidate appends
\* nothing; one with a NumericCandidate appends the balance-column value
\* when greater than 0 (else nothing) if a balance column was identified
\* and the row has a cell in it, and the value of its last NumericCandidate
\* if no balance column was identified or the row is too short to have a
\* cell in it.
BalanceCapture ==
    \A p \in Procs : \A r \in Processed(p) :
        LET row == all_rows[p][r]
            b == idx[p].balance_idx
        IN  DateLike(Join(row)) =>
                Captured(p, r) =
                    IF ~ HoldsCandidate(row) THEN {}
                    ELSE IF b # -1 /\ b < Len(row) THEN FromBalanceColumn(row, b)
                    ELSE {LastCandidate(row)}

\* a row too short for the identified balance column gave its last
\* NumericCandidate as the balance
ShortRowProxy ==
    \E p \in Procs : \E r \in Processed(p) :
        LET row == all_rows[p][r]
        IN  /\ idx[p].balance_idx >= Len(row)
            /\ DateLike(Join(row))
            /\ Len(row) >= 2
            /\ Captured(p, r) = {_parse_val(row[Len(row)])}

\* the row is unclassified: no role column was identified, or the type/amount
\* mode applies and the type cell holds no credit and no debit token
Unclassified(ix, row) ==
    \/ ix = NoColumns
    \/ /\ TypeAmountMode(ix, row)
       /\ \A k \in {<<"r", "e", "c", "e", "i", "v", "e", "d">>, <<"c", "a", "s", "h", " ", "i",
               "n">>, <<"d", "e", "p", "o", "s", "i", "t">>, <<"p", "a", "y", "m", "e", "n", "t">>,
               <<"s", "e", "n", "t">>,
                    <<"c", "a", "s", "h", " ", "o", "u", "t">>, <<"w", "i", "t", "h", "d", "r",
                            "a", "w">>} :
              ~ Contains(k, LowerCell(row, ix.type_idx))

\* C14 as stated: an unclassified date-bearing row changes none of
\* total_credit, total_debit and the balance list.
UnclassifiedRowExcluded ==
    \A p \in Procs : \A r \in Processed(p) :
        DateLike(Join(all_rows[p][r])) /\ Unclassified(idx[p], all_rows[p][r])
            => Silent(p, r)

\* C14, amended: an unclassified date-bearing row changes neither
\* total_credit nor total_debit (its balance capture still takes place).
UnclassifiedRowNoTotals ==
    \A p \in Procs : \A r \in Processed(p) :
        DateLike(Join(all_rows[p][r])) /\ Unclassified(idx[p], all_rows[p][r])
            => NothingTo(p, r, "total_credit") /\ NothingTo(p, r, "total_debit")

\* a row whose type cell holds no token, in the type/amount mode, left the
\* totals alone and gave a balance
UnmatchedTypeRow ==
    \E p \in Procs : \E r \in Processed(p) :
        /\ DateLike(Join(all_rows[p][r]))
        /\ TypeAmountMode(idx[p], all_rows[p][r])
        /\ Unclassified(idx[p], all_rows[p][r])
        /\ Positive(_parse_val(all_rows[p][r][idx[p].amount_idx + 1]))
        /\ NothingTo(p, r, "total_credit") /\ NothingTo(p, r, "total_debit")
        /\ Captured(p, r) # {}

\* the five role slots, in the order of their tests
RoleOrder == <<"balance_idx", "amount_idx", "credit_idx", "debit_idx", "type_idx">>

Roles == {RoleOrder[k] : k \in DOMAIN RoleOrder}

\* the lower-cased cell matches the keyword set of the role
MatchesRole(role, cell) ==
    LET kw == [balance_idx |-> KwBalance, amount_idx |-> KwAmount,
               credit_idx |-> KwCredit, debit_idx |-> KwDebit, type_idx |-> KwType]
        has(ks) == \E k \in ks : Contains(k, cell)
    IN  has(kw[role]) /\ (role = "type_idx" => has(KwTypeTokens))

\* the call is past column inference
Inferred(p) == ~ raised[p] /\ "table" \in stages[p] /\ pc[p] \in {"rows", "combine", "returned"}

FirstFreeRole(ix, j, cell) ==
    LET E == {k \in DOMAIN RoleOrder :
                ix[RoleOrder[k]] = -1 /\ MatchesRole(RoleOrder[k], cell)}
    IN  IF E = {} THEN ix
        ELSE [ix EXCEPT ![RoleOrder[CHOOSE k \in E : \A m \in E : k <= m]] = j]

\* C16: each scanned cell assigns at most one role, the first in the order
\* balance, amount, credit, debit, type whose keyword set matches the
\* lower-cased cell and whose slot is still unassigned; a cell that matches
\* only assigned roles assigns nothing.  Checked for every cell of the row
\* being scanned against every pattern of assigned slots among the roles the
\* cell matches, the other slots being as the scan left them.
OneRolePerCell ==
    \A p \in Procs : pc[p] = "columns" =>
        LET row == all_rows[p][row_no[p]]
        IN  \A j \in DOMAIN row :
                  LET cell == Lower(row[j])
                      M == {role \in Roles : MatchesRole(role, cell)}
                  IN  \A A \in SUBSET M :
                          LET ix == [role \in Roles |->
                                        IF role \in A THEN Len(row)
                                        ELSE IF role \in M THEN -1 ELSE idx[p][role]]
                              to == IdentifyCell(ix, j - 1, cell)
                          IN  /\ to = FirstFreeRole(ix, j - 1, cell)
                              /\ Cardinality({role \in Roles : to[role] # ix[role]}) <= 1

\* a cell that matches the amount and the credit keywords, both roles being
\* unassigned, gave the amount column only
AmountBeforeCredit ==
    \E p \in Procs : \E r \in DOMAIN all_rows[p] : \E j \in DOMAIN all_rows[p][r] :
        /\ Inferred(p)
        /\ r <= HeaderRegion(all_rows[p])
        /\ MatchesRole("amount_idx", Lower(all_rows[p][r][j]))
        /\ MatchesRole("credit_idx", Lower(all_rows[p][r][j]))
        /\ idx[p].amount_idx = j - 1
        /\ idx[p].credit_idx = -1

\* the places in the log where row number r of invocation p added to the
\* accumulator "to"
AddsOf(p, r, to) ==
    {k \in DOMAIN added[p] : added[p][k].row = r /\ added[p][k].to = to}

\* both a type column and an amount column were identified and the row has a
\* cell at each
TypeAndAmount(ix, row) ==
    /\ ix.type_idx # -1 /\ ix.amount_idx # -1
    /\ ix.amount_idx < Len(row) /\ ix.type_idx < Len(row)

\* what the column mode adds to the accumulator "to" from the column with
\* index j: the cell's value (a value of 0.0 leaves the total as it is),
\* nothing if no such column was identified or the row is too short
ColumnAddition(row, j) ==
    IF j # -1 /\ j < Len(row) /\ _parse_val(row[j + 1]) # Zero
    THEN {<<j, _parse_val(row[j + 1]), "column">>} ELSE {}

\* the additions row number r of invocation p made to "to", as triples
Made(p, r, to) ==
    {<<added[p][k].col, added[p][k].v, added[p][k].via>> : k \in AddsOf(p, r, to)}

\* C17 as stated: in the column mode every date-bearing row adds the value of
\* its credit-column cell to total_credit and the value of its debit-column
\* cell to total_debit, independently; and a row the type/amount mode
\* applies to does not read its credit and debit columns.
ColumnModeEveryDatedRow ==
    \A p \in Procs : \A r \in Processed(p) :
        LET row == all_rows[p][r]
        IN  DateLike(Join(row)) =>
                IF TypeAndAmount(idx[p], row)
                THEN \A k \in DOMAIN added[p] :
                        added[p][k].row = r => added[p][k].via # "column"
                ELSE /\ Made(p, r, "total_credit") = ColumnAddition(row, idx[p].credit_idx)
                     /\ Made(p, r, "total_debit") = ColumnAddition(row, idx[p].debit_idx)

\* C17: in the column mode a date-bearing row that holds a NumericCandidate
\* adds the value of its credit-column cell to total_credit and the value of
\* its debit-column cell to total_debit, each once and independently of the
\* other; a date-bearing row without a NumericCandidate adds nothing; and a
\* row the type/amount mode applies to makes no addition from its credit
\* and debit columns: what it adds to a total is the amount-column value.
ColumnModeIndependent ==
    \A p \in Procs : \A r \in Processed(p) :
        LET row == all_rows[p][r]
        IN  DateLike(Join(row)) =>
                IF ~ HoldsCandidate(row) THEN Silent(p, r)
                ELSE IF TypeAndAmount(idx[p], row)
                THEN \A k \in DOMAIN added[p] :
                        added[p][k].row = r /\ added[p][k].to # "balances" =>
                            /\ added[p][k].via = "amount"
                            /\ added[p][k].col = idx[p].amount_idx
                            /\ added[p][k].v = _parse_val(row[idx[p].amount_idx + 1])
                ELSE \A role \in {"credit", "debit"} :
                        LET to == IF role = "credit" THEN "total_credit" ELSE "total_debit"
                            j  == IF role = "credit" THEN idx[p].credit_idx
                                  ELSE idx[p].debit_idx
                        IN  /\ Made(p, r, to) = ColumnAddition(row, j)
                            /\ Cardinality(AddsOf(p, r, to)) <= 1

\* one row increased both totals from its credit and debit columns
RowIncreasedBoth ==
    \E p \in Procs : \E r \in Processed(p) :
              /\ ~ TypeAndAmount(idx[p], all_rows[p][r])
              /\ \E a \in Made(p, r, "total_credit") : a[2] # Zero
              /\ \E a \in Made(p, r, "total_debit") : a[2] # Zero

\* the smallest element of a non-empty set of numbers
Earliest(S) == CHOOSE i \in S : \A k \in S : i <= k

\* the value found for a family is that of the match that starts earliest in
\* the text, and None when the text holds no match
EarliestOrNone(labels, text, found) ==
    LET S == MatchStarts(labels, text)
    IN  IF S = {} THEN found = None
        ELSE /\ found # None
             /\ \E g \in MatchesAt(labels, text, Lower(text), Earliest(S)) :
                    found[1] = _parse_val(g)

\* C18: for each summary family (credit, debit, balance) the value used is
\* that of the earliest match in the concatenated page text, whichever label
\* it carries, and a family with no match yields None; a found value of 0.0
\* is not None: it is returned, the table's total is not.
EarliestMatchOrNone ==
    \A p \in Procs :
        /\ pc[p] = "check" =>
              /\ EarliestOrNone(CreditLabels, all_text[p], summary[p].summary_credit)
              /\ EarliestOrNone(DebitLabels, all_text[p], summary[p].summary_debit)
              /\ EarliestOrNone(BalanceLabels, all_text[p], summary[p].summary_balance)
        /\ Completed(p) /\ summary[p].summary_credit = Some(Zero) => result[p][1] = Zero
        /\ Completed(p) /\ summary[p].summary_debit = Some(Zero) => result[p][2] = Zero

\* the text holds two matches of the credit family with different labels and
\* values, "Total In: BDT 0.00" and "Cash In 12": the first was taken, and
\* its 0.0 was returned although the table had credits
FirstOfTwoMatches ==
    \E p \in Procs :
        /\ Completed(p)
        /\ Cardinality(MatchStarts(CreditLabels, all_text[p])) >= 2
        /\ summary[p].summary_credit = Some(Zero)
        /\ summary[p].summary_debit = None
        /\ Truthy(Total(added[p], "total_credit"))
        /\ result[p][1] = Zero

\* the lower-cased type cell holds one of the keywords
HoldsAny(keys, t) == \E k \in keys : Contains(k, t)

\* C19: in the type/amount mode a date-bearing row whose type cell holds a
\* generic token ("credit", "in", "successful") but none of the credit
\* keywords ("received", "cash in", "deposit") and none of the debit keywords
\* ("payment", "sent", "cash out", "withdraw") adds its amount to neither
\* total_credit nor total_debit.
GenericTokenOnly ==
    \A p \in Procs : \A r \in Processed(p) :
        LET row == all_rows[p][r]
            t == LowerCell(row, idx[p].type_idx)
        IN  /\ DateLike(Join(row))
            /\ TypeAndAmount(idx[p], row)
            /\ HoldsAny({<<"c", "r", "e", "d", "i", "t">>, <<"i", "n">>, <<"s", "u", "c", "c", "e",
                    "s", "s", "f", "u", "l">>}, t)
            /\ ~ HoldsAny({<<"r", "e", "c", "e", "i", "v", "e", "d">>, <<"c", "a", "s", "h", " ",
                    "i", "n">>, <<"d", "e", "p", "o", "s", "i", "t">>}, t)
            /\ ~ HoldsAny({<<"p", "a", "y", "m", "e", "n", "t">>, <<"s", "e", "n", "t">>, <<"c",
                    "a", "s", "h", " ", "o", "u", "t">>, <<"w", "i", "t", "h", "d", "r", "a",
                    "w">>}, t)
            => NothingTo(p, r, "total_credit") /\ NothingTo(p, r, "total_debit")

\* the row ["08/02/2024", "11", "", "Successful", "20"] went through the
\* type/amount mode: its amount reached no total, only the balance list
SuccessfulRowDropped ==
    \E p \in Procs : \E r \in Processed(p) :
        LET row == all_rows[p][r]
        IN  /\ TypeAndAmount(idx[p], row)
            /\ LowerCell(row, idx[p].type_idx) = <<"s", "u", "c", "c", "e", "s", "s", "f", "u",
                    "l">>
            /\ Positive(_parse_val(row[idx[p].amount_idx + 1]))
            /\ NothingTo(p, r, "total_credit") /\ NothingTo(p, r, "total_debit")
            /\ ~ NothingTo(p, r, "balances")

\* the number of rows of all_rows that column inference may read
Scanned(rows) == IF Len(rows) < 20 THEN Len(rows) ELSE 20

\* C20: column-role inference reads only the first 20 non-empty rows of the
\* document, counted across all pages: the scan never stands at row 21 or
\* later, every role that holds an index got it from a matching cell among
\* the first 20 rows, and the roles are those the first 20 rows alone give.
FirstTwentyRows ==
    \A p \in Procs :
        /\ pc[p] = "columns" => row_no[p] <= 20
        /\ \A r \in DOMAIN all_rows[p] : AnyCell(all_rows[p][r])
        /\ Inferred(p) =>
              /\ \A role \in Roles : idx[p][role] # -1 =>
                    \E r \in 1..Scanned(all_rows[p]) :
                        /\ idx[p][role] < Len(all_rows[p][r])
                        /\ MatchesRole(role, LowerCell(all_rows[p][r], idx[p][role]))
              /\ idx[p] = ColumnsOf(SubSeq(all_rows[p], 1, Scanned(all_rows[p])),
                                    Scanned(all_rows[p]))

\* the header [Date, Description, Credit, Debit, Balance] is row 21 of the
\* non-empty rows of a two-page document (row 22 as extracted): no role was
\* assigned, and the transaction under it reached no total
HeaderInRowTwentyOne ==
    \E p \in Procs :
        /\ Completed(p) /\ "table" \in stages[p]
        /\ Len(doc[p].pages) = 2
        /\ Len(all_rows[p]) > 20
        /\ all_rows[p][21] = HeaderRow
        /\ idx[p] = NoColumns
        /\ 22 \in Processed(p) /\ NothingTo(p, 22, "total_credit")
        /\ ~ NothingTo(p, 22, "balances")

(***************************************************************************)
(* More properties of column inference                                     *)
(***************************************************************************)

\* the lower-cased cell holds a type keyword
TypeWord(cell) ==
    HoldsAny({<<"s", "t", "a", "t", "u", "s">>, <<"t", "y", "p", "e">>, <<"d", "e", "s", "c", "r",
            "i", "p", "t", "i", "o", "n">>, <<"p", "a", "r", "t", "i", "c", "u", "l", "a", "r",
            "s">>}, cell)

\* the lower-cased cell holds a credit/debit-indicating token
TypeToken(cell) ==
    HoldsAny({<<"c", "r", "e", "d", "i", "t">>, <<"d", "e", "b", "i", "t">>, <<"r", "e", "c", "e",
            "i", "v", "e", "d">>, <<"p", "a", "y", "m", "e", "n", "t">>}, cell)

\* C21: the type role is assigned to a column only from a cell that holds a
\* type keyword (status, type, description, particulars) and a
\* credit/debit-indicating token as well; a cell with a type keyword and no
\* such token never assigns the type role, whatever the other slots hold.
TypeNeedsToken ==
    \A p \in Procs :
        /\ Inferred(p) /\ idx[p].type_idx # -1 =>
              \E r \in 1..Scanned(all_rows[p]) :
                  /\ idx[p].type_idx < Len(all_rows[p][r])
                  /\ TypeWord(LowerCell(all_rows[p][r], idx[p].type_idx))
                  /\ TypeToken(LowerCell(all_rows[p][r], idx[p].type_idx))
        /\ pc[p] = "columns" =>
              LET row == all_rows[p][row_no[p]]
              IN  \A j \in DOMAIN row :
                      TypeWord(Lower(row[j])) /\ ~ TypeToken(Lower(row[j])) =>
                          \A held \in SUBSET (Roles \ {"type_idx"}) :
                              LET ix == [role \in Roles |->
                                            IF role \in held THEN Len(row) ELSE -1]
                              IN  IdentifyCell(ix, j - 1, Lower(row[j])).type_idx = -1

\* the header cell "Description" of column 1 assigned no type role, and the
\* cell "Payment type sent" of the row under it did
DescriptionAloneNoType ==
    \E p \in Procs :
        /\ Inferred(p)
        /\ Len(all_rows[p]) >= 2
        /\ all_rows[p][1] = HeaderRow
        /\ idx[p].type_idx = 1
        /\ \E r \in 2..Scanned(all_rows[p]) :
              Lower(all_rows[p][r][2]) = <<"p", "a", "y", "m", "e", "n", "t", " ", "t", "y", "p",
                      "e", " ", "s", "e", "n", "t">>

\* the role was assigned before the cell of column j of the row being
\* scanned was reached: from an earlier row, or from a cell of this row to
\* the left of column j
AssignedBefore(was, now, role, j) ==
    now[role] # -1 /\ (was[role] # -1 \/ now[role] < j)

\* C26: after column-role inference a type column is identified only if a
\* credit column or a debit column is identified too, and that role was
\* assigned from a cell scanned before the cell that assigned the type
\* role: in the step that assigns the type role, a credit or debit role
\* whose keyword the type cell holds was already assigned.
TypeAfterCreditOrDebit ==
    [][\A p \in Procs :
          /\ ~ raised'[p] /\ idx'[p].type_idx # -1 =>
                idx'[p].credit_idx # -1 \/ idx'[p].debit_idx # -1
          /\ ~ raised'[p] /\ idx[p].type_idx = -1 /\ idx'[p].type_idx # -1 =>
                LET cell == LowerCell(all_rows[p][row_no[p]], idx'[p].type_idx)
                IN  \E role \in {"credit_idx", "debit_idx"} :
                        /\ MatchesRole(role, cell)
                        /\ AssignedBefore(idx[p], idx'[p], role, idx'[p].type_idx)]_vars

\* the debit role came from the header row and the type role from the cell
\* "Payment type sent" of a later row, which holds the debit keyword "payment"
TypeFromLaterRow ==
    \E p \in Procs :
        /\ Inferred(p)
        /\ idx[p].type_idx = 1 /\ idx[p].debit_idx = 3 /\ idx[p].credit_idx = 2
        /\ \E r \in 2..Scanned(all_rows[p]) :
              /\ Lower(all_rows[p][r][2]) = <<"p", "a", "y", "m", "e", "n", "t", " ", "t", "y",
                      "p", "e", " ", "s", "e", "n", "t">>
              /\ MatchesRole("debit_idx", Lower(all_rows[p][r][2]))
              /\ Lower(all_rows[p][1][4]) = <<"d", "e", "b", "i", "t">>

\* C27: after column-role inference no column index is held by two
\* different roles: the identified balance, amount, credit, debit and type
\* columns are pairwise distinct.
RolesPairwiseDistinct ==
    \A p \in Procs : Inferred(p) =>
        \A a, b \in Roles :
            a # b /\ idx[p][a] # -1 /\ idx[p][b] # -1 => idx[p][a] # idx[p][b]

(***************************************************************************)
(* Claims about the route POST /evaluate.                                  *)
(***************************************************************************)

\* the request was answered with an evaluation (lines 91-112)
Evaluated(r) == request[r].at = "done" /\ request[r].response.code = 200

\* the self-declared income of the form, where it is a number (hundredths)
Declared(r) == FormFloat(request[r].form.monthlyIncome)

\* C22: income is verified (status "Verified") exactly when total_credit > 0
\* and the self-declared income lies within the +-20% margin of total_credit
\* or does not exceed total_credit; when total_credit is 0 the status is
\* always "Needs Review".
VerifiedExactlyWithinMargin ==
    \A r \in Requests : Evaluated(r) =>
        LET total_credit == request[r].response.totalCredit
            n == Declared(r).v
            within == /\ Declared(r).kind = "number"
                      /\ \/ 8 * total_credit <= 10 * n /\ 10 * n <= 12 * total_credit
                         \/ n <= total_credit
        IN  /\ request[r].response.status = "Verified" <=> total_credit > 0 /\ within
            /\ total_credit = 0 => request[r].response.status = "Needs Review"

\* C23: isEligible is true exactly when status is "Verified", business age
\* is at least 1 and avg_balance > 0; in that case suggestedAmount =
\* min(self-declared income, avg_balance) x m with m = 2 for age < 2, 3 for
\* 2 <= age < 5 and 5 for age >= 5; in every other case isEligible is false
\* and suggestedAmount is 0.
EligibleExactlyWhenVerifiedAndOld ==
    \A r \in Requests : Evaluated(r) =>
        LET response == request[r].response
            age == PyFloat(request[r].form.businessAge)
            avg_balance == response.averageMonthlyBalance
            income == Declared(r).v
            eligible == /\ response.status = "Verified"
                        /\ age.kind = "number" /\ age.v >= 100
                        /\ avg_balance > 0
            m == IF age.v < 200 THEN 2 ELSE IF age.v < 500 THEN 3 ELSE 5
        IN  /\ response.isEligible <=> eligible
            /\ eligible =>
                  response.suggestedAmount =
                      m * (IF income <= avg_balance THEN income ELSE avg_balance)
            /\ ~ eligible => response.suggestedAmount = 0

\* the request has come past line 40: its statement was parsed
HasParsed(r) == request[r].metrics # <<>>

\* C28: when extract_financial_metrics degrades to (0.0, 0.0, 0.0) the
\* request is answered with status "Needs Review", isEligible false and
\* suggestedAmount 0, for every self-declared income and business age.
FailedParseNeedsReview ==
    \A r \in Requests :
        request[r].at = "done" /\ HasParsed(r) /\ request[r].metrics = ZeroTriple =>
            /\ request[r].response.code = 200
            /\ request[r].response.status = "Needs Review"
            /\ ~ request[r].response.isEligible
            /\ request[r].response.suggestedAmount = 0

\* C29: under any interleaving of concurrent requests, also of two uploads
\* with equal sanitized filenames, each request parses exactly the content
\* it saved itself, its temp file exists from its save until its own
\* os.remove, and the file is removed exactly once after parsing.
OwnFileParsedAndRemovedOnce ==
    \A r \in Requests :
        /\ HasParsed(r) => request[r].parsed_from = Some(FilePart(r).content)
        /\ request[r].at \in {"parse", "remove"} =>
              request[r].file_path \in DOMAIN temp_uploads
        /\ request[r].at = "done" /\ HasParsed(r) => request[r].removed = 1

(***************************************************************************)
(* Claims about the DataProcessor.                                         *)
(***************************************************************************)

\* C24: _calculate_client_score returns a score in the range 0 to 100
\* inclusive for every row, whatever its overdue count, repayment rate and
\* cycle, missing and non-numeric values included.
ScoreInRange ==
    client_score # NotScored =>
        client_score.kind = "number" /\ 0 <= client_score.v /\ client_score.v <= 10000

\* the step is a call of load_data that returned False
FailedLoad == answer'.call = "load_data" /\ ~ answer'.returned.ok

\* C25: until some load_data call has succeeded the processed data stays
\* unset, every query returns its empty value (None for get_basic_stats,
\* find_client and find_group, [] for get_all_clients, get_all_groups and
\* get_group_members) and GET /stats answers 400 'No data loaded'; after a
\* successful load_data the processed data is never unset again.
ProcessedUnsetUntilLoaded ==
    [][/\ df_processed = None /\ df_processed' # None =>
              answer'.call = "load_data" /\ answer'.returned.ok
       /\ df_processed = None /\ answer'.call \in {"get_basic_stats", "find_client",
                                                    "find_group"} =>
              answer'.returned = PyNone
       /\ df_processed = None /\ answer'.call \in {"get_all_clients", "get_all_groups",
                                                    "get_group_members"} =>
              answer'.returned = PyList(<<>>)
       /\ df_processed = None /\ answer'.call = "GET /stats" =>
              /\ answer'.returned.code = 400
              /\ answer'.returned.error = "No data loaded. Please upload a CSV file first."
       /\ df_processed # None => df_processed' # None]_vars

\* a load has failed in preprocessing, the processed data is still unset and
\* get_basic_stats has returned None
StatsNoneAfterFailedLoad ==
    /\ df_original # None
    /\ df_processed = None
    /\ answer = [call |-> "get_basic_stats", returned |-> PyNone]

\* C30: a failed load_data call (unsupported extension, unreadable file, or
\* an error raised during preprocessing) leaves df_original and df_processed
\* as they were, so both always stem from the same successfully loaded file.
FailedLoadChangesNothing ==
    [][/\ FailedLoad => df_original' = df_original /\ df_processed' = df_processed
       /\ df_original' # None /\ df_processed' # None =>
              df_original'[1].file = df_processed'[1].file]_vars
====
